---------------------------- MODULE Spec2Model ----------------------------
(***************************************************************************)
(* A model of mst.c: the disjoint-set forest, the indexed binary and       *)
(* Fibonacci min-heaps, the edge-list merge sort with its distributed      *)
(* tree-merge, and the four MST algorithms (Kruskal, Prim with either      *)
(* heap, Boruvka) run by a cohort of ranks.                                *)
(*                                                                         *)
(* C arrays are functions over 0..n-1, so that every index of the model    *)
(* is the index of the source.  An edge is the tuple <<from, to, weight>>  *)
(* (the three consecutive ints of the flat edge list); Edge[1] is          *)
(* edgeList[i*EDGE_MEMBERS], Edge[2] is +1 and Edge[3] is +2.              *)
(***************************************************************************)
EXTENDS Integers, Sequences, FiniteSets, TLC

VARIABLES
    \* ---- disjoint-set forest driven by arbitrary calls (SpecSet)
    dsSet,          \* the Set under test
    dsPairs,        \* history: the unordered pairs {a, b}, a # b, passed to
                    \* unionSet (the closure is reflexive without {a, a})
    \* ---- heaps driven by arbitrary calls (SpecHeap) and used by Prim
    heapKind,       \* "binary" | "fibonacci" | "none"
    bheap,          \* the BinaryMinHeap
    fheap,          \* the FibonacciMinHeap, with its nodes
    hist,           \* history of the heap calls (see HistInit)
    \* ---- main() on a cohort of ranks (SpecMST)
    handle,         \* the broadcast Handle: [algorithm]
    worldSize,      \* size of MPI_COMM_WORLD
    input,          \* history: the graph as readGraphFile stored it
    mainGraph,      \* *graph of rank 0
    mainMst,        \* *mst of rank 0
    pc,             \* rank -> where the rank stands
    local,          \* rank -> the locals of the rank (see LocalIdle)
    channel         \* rank -> the messages sent by rank, not yet received

mstVars ==
    <<handle, worldSize, input, mainGraph, mainMst, pc, local, channel>>

vars == <<dsSet, dsPairs, heapKind, bheap, fheap, hist, handle, worldSize,
          input, mainGraph, mainMst, pc, local, channel>>

----------------------------------------------------------------------------
(* Program constants *)

EDGE_MEMBERS == 3
UNSET_ELEMENT == -1
INT_MAX == 2147483647
NULL == 0

(* Bounds of the model *)

\* elements of the forest driven by SpecSet
MaxSetElements == 4
\* vertices 0..MaxHeapVertices-1 of the heaps driven by SpecHeap
MaxHeapVertices == 3
\* their weights are 0..MaxHeapWeight and their via fields 0..MaxHeapVia
MaxHeapWeight == 2
MaxHeapVia == 1
\* vertices 0..MaxTripVertices-1 of the heaps driven by SpecTrip
MaxTripVertices == 6
\* SpecMST: graphs of 1..MaxVertices vertices and at most MaxEdges edges
\* with the weights 1..MaxWeight, run by 1..MaxSize ranks
MaxVertices == 4
MaxEdges == 5
MaxWeight == 2
MaxSize == 3
\* SpecBoruvka: paths of MaxPathVertices vertices
MaxPathVertices == 6
\* SpecFibonacci: a Fibonacci heap of MaxFibonacciVertices vertices from
\* its construction on, and one of MaxFilledVertices vertices from the first
\* pop of mstPrimFibonacci on, up to its pop number MaxFilledPops
MaxFibonacciVertices == 5
MaxFilledVertices == 9
MaxFilledPops == 2

----------------------------------------------------------------------------
(* C arithmetic and array helpers *)

\* int / int of C: truncation toward zero (b > 0)
CDiv(a, b) == IF a >= 0 THEN a \div b ELSE -((-a) \div b)

\* int % int of C: the sign follows the dividend (b > 0)
CMod(a, b) == a - b * CDiv(a, b)

\* an array of n slots, all holding x
ArrayOf(n, x) == [i \in 0..(n - 1) |-> x]

----------------------------------------------------------------------------
(* Disjoint-set forest: struct Set, newSet, findSet, unionSet *)

\* newSet: memset(canonicalElements, UNSET_ELEMENT), calloc(rank)
newSet(elements) ==
    [elements |-> elements,
     canonicalElements |-> ArrayOf(elements, UNSET_ELEMENT),
     rank |-> ArrayOf(elements, 0)]

\* a findSet that returns the canonical element and leaves the path alone
FindSetUncompressed(r, vertex) == r

\* findSet, on the way back from the recursion: the parent slot of vertex
\* is overwritten with the canonical element (path compression)
FindSetCompress(r, vertex) ==
    [set |-> [r.set EXCEPT !.canonicalElements[vertex] = r.ret],
     ret |-> r.ret]

\* findSet returns the canonical element and compresses the path: the
\* result is the pair [set, ret] of the forest afterwards and the return value
RECURSIVE findSet(_, _)
findSet(set, vertex) ==
    IF set.canonicalElements[vertex] = UNSET_ELEMENT
    THEN [set |-> set, ret |-> vertex]
    ELSE FindSetCompress(findSet(set, set.canonicalElements[vertex]), vertex)

\* a union that leaves the rank as it is on a rank tie
UnionRootsRankKept(s, root1, root2) ==
    IF root1 = root2 THEN s
    ELSE IF s.rank[root1] > s.rank[root2]
         THEN [s EXCEPT !.canonicalElements[root2] = root1]
    ELSE [s EXCEPT !.canonicalElements[root1] = root2]

\* unionSet after its two findSet calls: union by rank of the two roots
UnionRoots(s, root1, root2) ==
    IF root1 = root2 THEN s
    ELSE IF s.rank[root1] < s.rank[root2]
         THEN [s EXCEPT !.canonicalElements[root1] = root2]
    ELSE IF s.rank[root1] > s.rank[root2]
         THEN [s EXCEPT !.canonicalElements[root2] = root1]
    ELSE [s EXCEPT !.canonicalElements[root1] = root2,
                   !.rank[root2] = s.rank[root1] + 1]

UnionWithRoots(f1, f2) == UnionRoots(f2.set, f1.ret, f2.ret)

UnionAfterFirstFind(f1, parent2) == UnionWithRoots(f1, findSet(f1.set, parent2))

\* a unionSet that links the arguments themselves instead of their roots
unionSetLinksArguments(set, parent1, parent2) ==
    IF findSet(set, parent1).ret = findSet(set, parent2).ret THEN set
    ELSE [set EXCEPT !.canonicalElements[parent1] = parent2]

\* unionSet: union by rank of the trees of parent1 and parent2
unionSet(set, parent1, parent2) ==
    UnionAfterFirstFind(findSet(set, parent1), parent2)

----------------------------------------------------------------------------
(* Indexed binary min-heap: struct BinaryMinHeap and its operations *)

\* a slot of malloc'ed or realloc'ed memory that was never written
UninitElement ==
    [vertex |-> UNSET_ELEMENT, via |-> UNSET_ELEMENT, weight |-> UNSET_ELEMENT]

\* newBinaryMinHeap, followed by the caller's realloc of positions to one
\* int per vertex (mstPrimBinary); no slot of either array is initialised
newBinaryMinHeap(vertices) ==
    [alloced |-> 4,
     size |-> 0,
     positions |-> ArrayOf(vertices, UNSET_ELEMENT),
     elements |-> ArrayOf(4, UninitElement)]

swapBinaryHeapElement(heap, position1, position2) ==
    LET e == heap.elements
        p1 == [heap.positions EXCEPT ![e[position1].vertex] = position2]
        p2 == [p1 EXCEPT ![e[position2].vertex] = position1]
    IN  [heap EXCEPT !.positions = p2,
                     !.elements = [e EXCEPT ![position1] = e[position2],
                                            ![position2] = e[position1]]]

\* heapifyBinaryMinHeap: sift up; (position - 1) / 2 is 0 for position 0
RECURSIVE heapifyBinaryMinHeap(_, _)
heapifyBinaryMinHeap(heap, position) ==
    IF position >= 0
    THEN LET positionParent == CDiv(position - 1, 2)
         IN  IF heap.elements[position].weight
                    < heap.elements[positionParent].weight
             THEN heapifyBinaryMinHeap(
                      swapBinaryHeapElement(heap, position, positionParent),
                      positionParent)
             ELSE heap
    ELSE heap

\* a sift-down that tests the right child only
RECURSIVE heapifyDownRightOnly(_, _)
heapifyDownRightOnly(heap, position) ==
    IF position < heap.size
    THEN LET positionRight == (position + 1) * 2
             positionSmallest ==
                 IF /\ positionRight <= heap.size
                    /\ heap.elements[positionRight].weight
                           < heap.elements[position].weight
                 THEN positionRight ELSE position
         IN  IF heap.elements[position].weight
                    > heap.elements[positionSmallest].weight
             THEN heapifyDownRightOnly(
                      swapBinaryHeapElement(heap, position, positionSmallest),
                      positionSmallest)
             ELSE heap
    ELSE heap

\* a sift-down whose child bounds reach one slot further, to index size + 1
RECURSIVE heapifyDownPastSize(_, _)
heapifyDownPastSize(heap, position) ==
    IF position < heap.size
    THEN LET positionLeft == (position + 1) * 2 - 1
             positionRight == (position + 1) * 2
             smallest1 ==
                 IF /\ positionLeft <= heap.size + 1
                    /\ heap.elements[positionLeft].weight
                           < heap.elements[position].weight
                 THEN positionLeft ELSE position
             positionSmallest ==
                 IF /\ positionRight <= heap.size + 1
                    /\ heap.elements[positionRight].weight
                           < heap.elements[smallest1].weight
                 THEN positionRight ELSE smallest1
         IN  IF heap.elements[position].weight
                    > heap.elements[positionSmallest].weight
             THEN heapifyDownPastSize(
                      swapBinaryHeapElement(heap, position, positionSmallest),
                      positionSmallest)
             ELSE heap
    ELSE heap

\* heapifyDownBinaryMinHeap: sift down; the child bounds are tested with
\* <= heap.size, so the slot at index size is read as well
RECURSIVE heapifyDownBinaryMinHeap(_, _)
heapifyDownBinaryMinHeap(heap, position) ==
    IF position < heap.size
    THEN LET positionLeft == (position + 1) * 2 - 1
             positionRight == (position + 1) * 2
             smallest1 ==
                 IF /\ positionLeft <= heap.size
                    /\ heap.elements[positionLeft].weight
                           < heap.elements[position].weight
                 THEN positionLeft ELSE position
             positionSmallest ==
                 IF /\ positionRight <= heap.size
                    /\ heap.elements[positionRight].weight
                           < heap.elements[smallest1].weight
                 THEN positionRight ELSE smallest1
         IN  IF heap.elements[position].weight
                    > heap.elements[positionSmallest].weight
             THEN heapifyDownBinaryMinHeap(
                      swapBinaryHeapElement(heap, position, positionSmallest),
                      positionSmallest)
             ELSE heap
    ELSE heap

\* pushBinaryMinHeap, the realloc: twice the slots when the array is full
PushGrow(heap) ==
    IF heap.size = heap.alloced
    THEN [heap EXCEPT
             !.elements = [i \in 0..(2 * heap.alloced - 1) |->
                               IF i < heap.alloced
                               THEN heap.elements[i]
                               ELSE UninitElement],
             !.alloced = 2 * heap.alloced]
    ELSE heap

\* pushBinaryMinHeap, the new entry at the tail and its position
PushPlace(heap, vertex, via, weight) ==
    [heap EXCEPT
        !.elements[heap.size] =
            [vertex |-> vertex, via |-> via, weight |-> weight],
        !.positions[vertex] = heap.size]

\* pushBinaryMinHeap, the sift up from the tail
PushSift(heap) == heapifyBinaryMinHeap(heap, heap.size)

\* pushBinaryMinHeap: double the array when full, append, sift up
pushBinaryMinHeap(heap, vertex, via, weight) ==
    [PushSift(PushPlace(PushGrow(heap), vertex, via, weight))
        EXCEPT !.size = @ + 1]

\* decreaseBinaryMinHeap: only when the position is set and the weight drops
decreaseBinaryMinHeap(heap, vertex, via, weight) ==
    IF /\ heap.positions[vertex] # UNSET_ELEMENT
       /\ heap.elements[heap.positions[vertex]].weight > weight
    THEN LET at == heap.positions[vertex]
             h == [heap EXCEPT !.elements[at].via = via,
                               !.elements[at].weight = weight]
         IN  heapifyBinaryMinHeap(h, at)
    ELSE heap

\* popBinaryMinHeap returns [heap, vertex, via, weight]
popBinaryMinHeap(heap) ==
    LET top == heap.elements[0]
        p1 == [heap.positions EXCEPT ![top.vertex] = UNSET_ELEMENT]
        e1 == [heap.elements EXCEPT ![0] = heap.elements[heap.size - 1]]
        p2 == [p1 EXCEPT ![e1[0].vertex] = 0]
        h == [heap EXCEPT !.positions = p2, !.elements = e1,
                          !.size = heap.size - 1]
    IN  [heap |-> heapifyDownBinaryMinHeap(h, 0),
         vertex |-> top.vertex, via |-> top.via, weight |-> top.weight]

\* the live entries of the heap, as <<vertex, via, weight>>
BinaryEntries(heap) ==
    {<<heap.elements[i].vertex, heap.elements[i].via, heap.elements[i].weight>> :
        i \in 0..(heap.size - 1)}

----------------------------------------------------------------------------
(* Indexed Fibonacci min-heap: struct FibonacciMinHeap and its operations. *)
(* heap.nodes maps the address of every allocated FibonacciHeapElement to  *)
(* its fields; pointers are addresses 1, 2, ... and NULL is 0.             *)

\* newFibonacciMinHeap, followed by the caller's realloc of positions to one
\* pointer per vertex (mstPrimFibonacci); minimum is NULL in the caller's
\* compound literal
newFibonacciMinHeap(vertices) ==
    [size |-> 0,
     minimum |-> NULL,
     positions |-> ArrayOf(vertices, NULL),
     nodes |-> <<>>]

\* malloc(sizeof(FibonacciHeapElement)): an address not in use
MallocElement(nodes) ==
    CHOOSE a \in 1..(Cardinality(DOMAIN nodes) + 1) : a \notin DOMAIN nodes

\* newFibonacciHeapElement
newFibonacciHeapElement(vertex, via, weight, left, right, parent, child) ==
    [childrens |-> 0, marked |-> FALSE, vertex |-> vertex, via |-> via,
     weight |-> weight, parent |-> parent, child |-> child,
     left |-> left, right |-> right]

\* one pointer assignment a->f = v in the memory m of the nodes
Put(m, a, f, v) == [m EXCEPT ![a][f] = v]

\* x->right->left = x->left; x->left->right = x->right;
UnlinkLeft(m, x) == Put(m, m[x].left, "right", m[x].right)
Unlink(m, x) == UnlinkLeft(Put(m, m[x].right, "left", m[x].left), x)

\* insertFibonacciMinHeap, the splice, with endHeap = heap->minimum->left
\* read before the first assignment
InsertSplice(m, minimum, element, endHeap) ==
    Put(Put(Put(Put(m, minimum, "left", element),
                element, "left", endHeap),
            endHeap, "right", element),
        element, "right", minimum)

\* insertFibonacciMinHeap: splice element into the root list left of minimum
insertFibonacciMinHeap(heap, element) ==
    IF heap.minimum = NULL
    THEN [heap EXCEPT !.minimum = element]
    ELSE [heap EXCEPT
             !.nodes = InsertSplice(heap.nodes, heap.minimum, element,
                                    heap.nodes[heap.minimum].left),
             !.minimum = IF heap.nodes[heap.minimum].weight
                               > heap.nodes[element].weight
                         THEN element ELSE heap.minimum]

\* pushFibonacciMinHeap with the address malloc returned
PushElement(heap, element, vertex, via, weight) ==
    [insertFibonacciMinHeap(
         [heap EXCEPT
             !.nodes = (element :> newFibonacciHeapElement(vertex, via, weight,
                                       element, element, NULL, NULL)) @@ @,
             !.positions[vertex] = element],
         element)
        EXCEPT !.size = @ + 1]

\* pushFibonacciMinHeap
pushFibonacciMinHeap(heap, vertex, via, weight) ==
    PushElement(heap, MallocElement(heap.nodes), vertex, via, weight)

\* cut: if (parent != NULL) parent->childrens--
CutCount(m, parent) ==
    IF parent # NULL THEN Put(m, parent, "childrens", m[parent].childrens - 1)
    ELSE m

\* a cut that leaves the parent's child pointer as it is
CutChildPointerKept(m, element, parent) == m

\* cut, after the unlink from the siblings: the parent's child pointer
CutChildPointer(m, element, parent) ==
    IF m[parent].child = element
    THEN Put(m, parent, "child", m[element].right)
    ELSE m

\* cut: take element out of the child list of parent
CutDetach(m, element, parent) ==
    IF m[element].right = element
    THEN Put(m, parent, "child", NULL)
    ELSE CutChildPointer(Unlink(m, element), element, parent)

RECURSIVE cutFibonacciMinHeap(_, _)

\* cut, the cascade: a marked parent that is no root is cut itself and
\* unmarked, an unmarked one is marked
CutCascade(heap, parent) ==
    IF heap.nodes[parent].parent # NULL
    THEN IF heap.nodes[parent].marked
         THEN [cutFibonacciMinHeap(heap, parent)
                  EXCEPT !.nodes[parent].marked = FALSE]
         ELSE [heap EXCEPT !.nodes[parent].marked = TRUE]
    ELSE heap

\* cut with parent = element->parent read on entry
CutFrom(heap, element, parent) ==
    CutCascade(
        [insertFibonacciMinHeap(
             [heap EXCEPT !.nodes = CutDetach(CutCount(@, parent),
                                              element, parent)],
             element)
            EXCEPT !.nodes[element].parent = NULL],
        parent)

\* cutFibonacciMinHeap: move element to the root list and cascade
cutFibonacciMinHeap(heap, element) ==
    CutFrom(heap, element, heap.nodes[element].parent)

\* a decrease that never cuts the element off its parent
DecreaseRestoreInPlace(heap, element, weight) ==
    IF heap.nodes[element].parent = NULL
    THEN IF heap.nodes[element].weight < heap.nodes[heap.minimum].weight
         THEN [heap EXCEPT !.minimum = element]
         ELSE heap
    ELSE heap

\* decrease, after via and weight were overwritten
DecreaseRestore(heap, element, weight) ==
    IF heap.nodes[element].parent = NULL
    THEN IF heap.nodes[element].weight < heap.nodes[heap.minimum].weight
         THEN [heap EXCEPT !.minimum = element]
         ELSE heap
    ELSE IF weight < heap.nodes[heap.nodes[element].parent].weight
         THEN cutFibonacciMinHeap(heap, element)
         ELSE heap

\* decrease with element = heap->positions[vertex]
DecreaseElement(heap, element, via, weight) ==
    IF element # NULL /\ heap.nodes[element].weight > weight
    THEN DecreaseRestore([heap EXCEPT !.nodes[element].via = via,
                                      !.nodes[element].weight = weight],
                         element, weight)
    ELSE heap

\* decreaseFibonacciMinHeap
decreaseFibonacciMinHeap(heap, vertex, via, weight) ==
    DecreaseElement(heap, heap.positions[vertex], via, weight)

\* floor(log2(n)) for n >= 1
RECURSIVE FloorLog2(_)
FloorLog2(n) == IF n <= 1 THEN 0 ELSE 1 + FloorLog2(n \div 2)

\* int degreeSize = 2 * log2(heap->size) + 1: the double is truncated, and
\* floor(2 * log2(n)) = floor(log2(n * n))
DegreeSize(size) == FloorLog2(size * size) + 1

\* consolidate, linking into a non-empty child list:
\* other->right->left = other; other->left->right = other;
LinkLeftNeighbour(m, other) == Put(m, m[other].left, "right", other)
LinkNeighbours(m, other) ==
    LinkLeftNeighbour(Put(m, m[other].right, "left", other), other)

\* other->left = element->child->left
LinkLeft(m, element, other) ==
    LinkNeighbours(Put(m, other, "left", m[m[element].child].left), other)

\* other->right = element->child
LinkRight(m, element, other) ==
    LinkLeft(Put(m, other, "right", m[element].child), element, other)

\* consolidate: other (degree[currentDegree]) becomes a child of element
LinkChild(m, element, other) ==
    IF m[element].child = NULL
    THEN Put(Put(m, element, "child", other), other, "parent", element)
    ELSE LinkRight(Put(m, other, "parent", element), element, other)

\* element->childrens++; degree[currentDegree]->marked = false;
LinkCount(m, element, other) ==
    Put(Put(m, element, "childrens", m[element].childrens + 1),
        other, "marked", FALSE)

RECURSIVE ConsolidateLink(_, _, _, _)

\* consolidate, one round of the inner while after the swap that keeps the
\* lighter root in element
LinkRound(m, degree, element, other, currentDegree) ==
    ConsolidateLink(LinkCount(LinkChild(m, element, other), element, other),
                    [degree EXCEPT ![currentDegree] = NULL],
                    element, currentDegree + 1)

\* consolidate, inner while: link trees of equal degree; returns the
\* record [nodes, degree, element, currentDegree] of the loop's variables
ConsolidateLink(m, degree, element, currentDegree) ==
    IF degree[currentDegree] # NULL
    THEN IF m[element].weight > m[degree[currentDegree]].weight
         THEN LinkRound(m, degree, degree[currentDegree], element,
                        currentDegree)
         ELSE LinkRound(m, degree, element, degree[currentDegree],
                        currentDegree)
    ELSE [nodes |-> m, degree |-> degree, element |-> element,
          currentDegree |-> currentDegree]

\* element->right = element; element->left = element;
SelfLink(m, element) ==
    Put(Put(m, element, "right", element), element, "left", element)

RECURSIVE ConsolidateRoots(_, _, _)

\* consolidate, the end of one round of the do-while:
\* degree[currentDegree] = element; element = nextElement;
RootsNext(c, nextElement) ==
    IF nextElement # NULL
    THEN ConsolidateRoots(c.nodes,
                          [c.degree EXCEPT ![c.currentDegree] = c.element],
                          nextElement)
    ELSE [nodes |-> c.nodes,
          degree |-> [c.degree EXCEPT ![c.currentDegree] = c.element]]

\* consolidate, one round of the do-while once nextElement is known
RootsRound(m, degree, element, nextElement) ==
    RootsNext(ConsolidateLink(m, degree, element, m[element].childrens),
              nextElement)

\* consolidate, do-while over the root list: returns [nodes, degree]
ConsolidateRoots(m, degree, element) ==
    RootsRound(SelfLink(Unlink(m, element), element), degree, element,
               IF element = m[element].right THEN NULL ELSE m[element].right)

\* consolidate, rebuilding the root list: x goes left of minimum
\* x->right = minimum; x->left = minimum->left;
\* minimum->left->right = x; minimum->left = x;
RebuildLast(m, minimum, x) ==
    Put(Put(m, m[minimum].left, "right", x), minimum, "left", x)

RebuildSplice(m, minimum, x) ==
    RebuildLast(Put(Put(m, x, "right", minimum), x, "left", m[minimum].left),
                minimum, x)

\* consolidate, last loop: rebuild the root list from the degree table in
\* ascending degree and elect the minimum
RECURSIVE ConsolidateRebuild(_, _, _, _)
ConsolidateRebuild(m, minimum, degree, i) ==
    IF i \notin DOMAIN degree THEN [nodes |-> m, minimum |-> minimum]
    ELSE IF degree[i] = NULL
         THEN ConsolidateRebuild(m, minimum, degree, i + 1)
    ELSE IF minimum = NULL
         THEN ConsolidateRebuild(SelfLink(m, degree[i]), degree[i],
                                 degree, i + 1)
    ELSE ConsolidateRebuild(
             RebuildSplice(m, minimum, degree[i]),
             IF m[degree[i]].weight < m[minimum].weight
             THEN degree[i] ELSE minimum,
             degree, i + 1)

\* consolidate: the rebuilt root list and the elected minimum
ConsolidateInstall(heap, rebuilt) ==
    [heap EXCEPT !.nodes = rebuilt.nodes, !.minimum = rebuilt.minimum]

\* a consolidate that leaves the root list as pop left it
ConsolidateElectNone(heap, swept) == heap

ConsolidateElect(heap, swept) ==
    ConsolidateInstall(heap,
                       ConsolidateRebuild(swept.nodes, NULL, swept.degree, 0))

\* consolidateFibonacciMinHeap
consolidateFibonacciMinHeap(heap) ==
    ConsolidateElect(heap,
                     ConsolidateRoots(heap.nodes,
                                      ArrayOf(DegreeSize(heap.size), NULL),
                                      heap.minimum))

\* pop, moving one child: minimum->child = child->right and the unlink
PopTakeChild(m, minimum, child) ==
    IF child = m[child].right
    THEN Put(m, minimum, "child", NULL)
    ELSE Unlink(Put(m, minimum, "child", m[child].right), child)

\* child->parent = NULL; child->right = minimum; child->left = minimum->left;
PopChildLinks(m, minimum, child) ==
    Put(Put(Put(m, child, "parent", NULL), child, "right", minimum),
        child, "left", m[minimum].left)

\* minimum->left->right = child; minimum->left = child;
PopMinimumLinks(m, minimum, child) ==
    Put(Put(m, m[minimum].left, "right", child), minimum, "left", child)

PopMoveChild(m, minimum, child) ==
    PopMinimumLinks(PopChildLinks(PopTakeChild(m, minimum, child),
                                  minimum, child),
                    minimum, child)

\* pop, first loop: move the children of minimum into the root list
RECURSIVE PopChildren(_, _, _)
PopChildren(m, minimum, i) ==
    IF i < m[minimum].childrens
    THEN PopChildren(PopMoveChild(m, minimum, m[minimum].child), minimum,
                     i + 1)
    ELSE m

\* free(minimum): the address leaves the allocated nodes
FreeElement(m, element) == [a \in DOMAIN m \ {element} |-> m[a]]

\* pop: consolidate what is left
PopConsolidate(heap) ==
    IF heap.size > 0 THEN consolidateFibonacciMinHeap(heap) ELSE heap

\* pop, after the children were moved: unlink minimum, free it; the heap
\* as consolidate gets it
PopUnlink(heap, m, minimum) ==
    [heap EXCEPT
        !.minimum = IF minimum = m[minimum].right THEN NULL
                    ELSE m[minimum].right,
        !.size = heap.size - 1,
        !.positions[m[minimum].vertex] = NULL,
        !.nodes = FreeElement(IF minimum = m[minimum].right THEN m
                              ELSE Unlink(m, minimum),
                              minimum)]

\* pop, after the children were moved: the heap and the popped entry
PopRemove(heap, m, minimum) ==
    [heap |-> PopConsolidate(PopUnlink(heap, m, minimum)),
     vertex |-> m[minimum].vertex,
     via |-> m[minimum].via,
     weight |-> m[minimum].weight]

\* popFibonacciMinHeap returns [heap, vertex, via, weight]; the caller's
\* three ints are left as they were (here UNSET_ELEMENT) on an empty heap
popFibonacciMinHeap(heap) ==
    IF heap.minimum # NULL
    THEN PopRemove(heap, PopChildren(heap.nodes, heap.minimum, 0),
                   heap.minimum)
    ELSE [heap |-> heap, vertex |-> UNSET_ELEMENT,
          via |-> UNSET_ELEMENT, weight |-> UNSET_ELEMENT]

\* the live entries of the heap, as <<vertex, via, weight>>
FibonacciEntries(heap) ==
    {<<heap.nodes[a].vertex, heap.nodes[a].via, heap.nodes[a].weight>> :
        a \in DOMAIN heap.nodes}

----------------------------------------------------------------------------
(* Edge lists: merge sort and the scatter over the cohort *)

\* a working copy that has the second part in its own order
MergeWorkingForward(edgeList, start, end, pivot) ==
    [j \in 0..(end - start) |-> edgeList[start + j]]

\* merge, the scratch buffer: the run start..pivot as it is, then the run
\* pivot+1..end reversed (working[workingEnd - i] = edgeList[i])
MergeWorking(edgeList, start, end, pivot) ==
    [j \in 0..(end - start) |->
        IF j <= pivot - start THEN edgeList[start + j]
        ELSE edgeList[end + pivot - start + 1 - j]]

\* a merge loop that takes the heavier of the two edges first
RECURSIVE MergeLoopHeavierFirst(_, _, _, _, _, _)
MergeLoopHeavierFirst(edgeList, working, left, right, k, end) ==
    IF k > end THEN edgeList
    ELSE IF working[right][3] > working[left][3]
         THEN MergeLoopHeavierFirst([edgeList EXCEPT ![k] = working[right]],
                                    working, left, right - 1, k + 1, end)
         ELSE MergeLoopHeavierFirst([edgeList EXCEPT ![k] = working[left]],
                                    working, left + 1, right, k + 1, end)

\* merge, the loop over k with the two cursors closing in from both ends
RECURSIVE MergeLoop(_, _, _, _, _, _)
MergeLoop(edgeList, working, left, right, k, end) ==
    IF k > end THEN edgeList
    ELSE IF working[right][3] < working[left][3]
         THEN MergeLoop([edgeList EXCEPT ![k] = working[right]],
                        working, left, right - 1, k + 1, end)
         ELSE MergeLoop([edgeList EXCEPT ![k] = working[left]],
                        working, left + 1, right, k + 1, end)

\* merge: the sorted runs start..pivot and pivot+1..end become one
merge(edgeList, start, end, pivot) ==
    MergeLoop(edgeList, MergeWorking(edgeList, start, end, pivot),
              0, end - start, start, end)

\* whether mergeSort(start, end) returns: a call that reaches a call with
\* its own arguments recurses until the stack is exhausted
RECURSIVE MergeSortReturns(_, _)
MergeSortReturns(start, end) ==
    \/ start = end
    \/ /\ CDiv(start + end, 2) # end
       /\ MergeSortReturns(start, CDiv(start + end, 2))
       /\ CDiv(start + end, 2) + 1 # start
       /\ MergeSortReturns(CDiv(start + end, 2) + 1, end)

RECURSIVE mergeSort(_, _, _)

\* mergeSort with pivot = (start + end) / 2
MergeSortAround(edgeList, start, end, pivot) ==
    merge(mergeSort(mergeSort(edgeList, start, pivot), pivot + 1, end),
          start, end, pivot)

\* mergeSort: start and end are inclusive
mergeSort(edgeList, start, end) ==
    IF start # end
    THEN MergeSortAround(edgeList, start, end, CDiv(start + end, 2))
    ELSE edgeList

\* int elementsPart = (elements + size - 1) / size
ElementsPart(elements, cohort) == CDiv(elements + cohort - 1, cohort)

\* scatterEdgeList, MPI_Scatter: rank receives elementsPart edges from
\* offset rank * elementsPart of the root's buffer of `elements` edges; what
\* lies behind the buffer reads as filler
ScatterBuffer(edgeList, elements, elementsPart, rank, filler) ==
    [j \in 0..(elementsPart - 1) |->
        IF rank * elementsPart + j < elements
        THEN edgeList[rank * elementsPart + j]
        ELSE filler]

\* scatterEdgeList, the remainder for the last rank
ScatterCount(elements, elementsPart, rank, cohort) ==
    IF rank = cohort - 1 /\ CMod(elements, elementsPart) # 0
    THEN CMod(elements, elementsPart)
    ELSE elementsPart

\* scatterEdgeList, elements % *elementsPart with *elementsPart = 0
ScatterDividesByZero(elementsPart, rank, cohort) ==
    rank = cohort - 1 /\ elementsPart = 0

\* scatterEdgeList, the topology check
Unsupported(elements, cohort) ==
    CDiv(elements, 2) + 1 < cohort /\ elements # cohort

\* the first `count` slots of a buffer; the slots behind them are not read
\* again
Prefix(buffer, count) == [j \in 0..(count - 1) |-> buffer[j]]

\* scatterEdgeList on one rank: where the rank goes on, its part and its
\* elementsPart
scatterEdgeList(edgeList, elements, elementsPart, rank, cohort, filler) ==
    IF ScatterDividesByZero(elementsPart, rank, cohort)
    THEN [pc |-> "crashed", edgeListPart |-> <<>>, elementsPart |-> 0]
    ELSE IF Unsupported(elements, cohort)
    THEN [pc |-> "exited", edgeListPart |-> <<>>, elementsPart |-> 0]
    ELSE [pc |-> "scattered",
          edgeListPart |->
              Prefix(ScatterBuffer(edgeList, elements, elementsPart, rank,
                                   filler),
                     ScatterCount(elements, elementsPart, rank, cohort)),
          elementsPart |-> ScatterCount(elements, elementsPart, rank, cohort)]

\* whether some rank of a supported cohort keeps a slot that MPI_Scatter
\* read behind the root's buffer
ScatterReadsBehind(elements, cohort) ==
    /\ cohort > 1
    /\ ElementsPart(elements, cohort) > 0
    /\ ~Unsupported(elements, cohort)
    /\ \E rank \in 0..(cohort - 1) :
           rank * ElementsPart(elements, cohort)
               + ScatterCount(elements, ElementsPart(elements, cohort),
                              rank, cohort) > elements

----------------------------------------------------------------------------
(* Kruskal, the loop of rank 0 over the sorted edge list *)

RECURSIVE KruskalLoop(_, _, _, _, _)

\* a loop body that adds every edge until the MST has V - 1 edges
KruskalTestUnchecked(graph, mst, edgesMST, currentEdge, canonicalFrom, f) ==
    IF edgesMST < graph.vertices - 1
    THEN KruskalLoop(graph,
                     [mst EXCEPT !.edgeList[edgesMST] =
                                     graph.edgeList[currentEdge]],
                     unionSet(f.set, canonicalFrom, f.ret),
                     edgesMST + 1, currentEdge + 1)
    ELSE KruskalLoop(graph, mst, f.set, edgesMST, currentEdge + 1)

\* the loop body once both canonical elements are known
KruskalTest(graph, mst, edgesMST, currentEdge, canonicalElementFrom, f) ==
    IF canonicalElementFrom # f.ret
    THEN KruskalLoop(graph,
                     [mst EXCEPT !.edgeList[edgesMST] =
                                     graph.edgeList[currentEdge]],
                     unionSet(f.set, canonicalElementFrom, f.ret),
                     edgesMST + 1, currentEdge + 1)
    ELSE KruskalLoop(graph, mst, f.set, edgesMST, currentEdge + 1)

\* the loop body after the first findSet
KruskalFrom(graph, mst, edgesMST, currentEdge, f) ==
    KruskalTest(graph, mst, edgesMST, currentEdge, f.ret,
                findSet(f.set, graph.edgeList[currentEdge][2]))

\* both endpoints of the edge are elements of the forest
InForest(set, edge) ==
    /\ edge[1] \in DOMAIN set.canonicalElements
    /\ edge[2] \in DOMAIN set.canonicalElements

\* a loop that goes on while currentEdge <= edges
KruskalLoopInclusive(graph, mst, set, edgesMST, currentEdge) ==
    IF edgesMST < graph.vertices - 1 \/ currentEdge <= graph.edges
    THEN IF currentEdge \notin DOMAIN graph.edgeList
         THEN [mst |-> mst, set |-> set, edgesMST |-> edgesMST,
               currentEdge |-> currentEdge, fault |-> "overrun"]
         ELSE IF ~InForest(set, graph.edgeList[currentEdge])
         THEN [mst |-> mst, set |-> set, edgesMST |-> edgesMST,
               currentEdge |-> currentEdge, fault |-> "wild"]
         ELSE KruskalFrom(graph, mst, edgesMST, currentEdge,
                          findSet(set, graph.edgeList[currentEdge][1]))
    ELSE [mst |-> mst, set |-> set, edgesMST |-> edgesMST,
          currentEdge |-> currentEdge, fault |-> "none"]

\* for (edgesMST = 0; edgesMST < vertices - 1 || currentEdge < edges;):
\* returns the MST, the forest, the counters and how the loop ended: "none"
\* when its condition failed, "overrun" when currentEdge left the edge list,
\* "wild" when findSet was to index outside the forest
KruskalLoop(graph, mst, set, edgesMST, currentEdge) ==
    IF edgesMST < graph.vertices - 1 \/ currentEdge < graph.edges
    THEN IF currentEdge \notin DOMAIN graph.edgeList
         THEN [mst |-> mst, set |-> set, edgesMST |-> edgesMST,
               currentEdge |-> currentEdge, fault |-> "overrun"]
         ELSE IF ~InForest(set, graph.edgeList[currentEdge])
         THEN [mst |-> mst, set |-> set, edgesMST |-> edgesMST,
               currentEdge |-> currentEdge, fault |-> "wild"]
         ELSE KruskalFrom(graph, mst, edgesMST, currentEdge,
                          findSet(set, graph.edgeList[currentEdge][1]))
    ELSE [mst |-> mst, set |-> set, edgesMST |-> edgesMST,
          currentEdge |-> currentEdge, fault |-> "none"]


----------------------------------------------------------------------------
(* Boruvka: the three parts of one phase on one rank *)

\* malloc'ed closestEdge: from and to are not initialised; they are copied
\* but never read while the weight is INT_MAX
UninitEdge == <<UNSET_ELEMENT, UNSET_ELEMENT, UNSET_ELEMENT>>

\* reset all closestEdge: closestEdge[j * EDGE_MEMBERS + 2] = INT_MAX
ResetClosestEdge(closestEdge) ==
    [j \in DOMAIN closestEdge |->
        <<closestEdge[j][1], closestEdge[j][2], INT_MAX>>]

\* eventually update closestEdge of one canonical element
UpdateClosestEdge(closestEdge, canonicalElement, currentEdge) ==
    IF \/ closestEdge[canonicalElement][3] = INT_MAX
       \/ currentEdge[3] < closestEdge[canonicalElement][3]
    THEN [closestEdge EXCEPT ![canonicalElement] = currentEdge]
    ELSE closestEdge

RECURSIVE FindClosestEdge(_, _, _, _)

\* a scan body that updates closestEdge for k = 0 only
ScanTestFromOnly(edgeListPart, closestEdge, j, canonicalElement0, f) ==
    FindClosestEdge(
        edgeListPart, f.set,
        IF canonicalElement0 # f.ret
        THEN UpdateClosestEdge(closestEdge, canonicalElement0,
                               edgeListPart[j])
        ELSE closestEdge,
        j + 1)

\* the scan body once both canonical elements are known (k = 0, then k = 1)
ScanTest(edgeListPart, closestEdge, j, canonicalElement0, f) ==
    FindClosestEdge(
        edgeListPart, f.set,
        IF canonicalElement0 # f.ret
        THEN UpdateClosestEdge(
                 UpdateClosestEdge(closestEdge, canonicalElement0,
                                   edgeListPart[j]),
                 f.ret, edgeListPart[j])
        ELSE closestEdge,
        j + 1)

\* the scan body after the first findSet
ScanFrom(edgeListPart, closestEdge, j, f) ==
    ScanTest(edgeListPart, closestEdge, j, f.ret,
             findSet(f.set, edgeListPart[j][2]))

\* find closestEdge: for (j = 0; j < edgesPart; j++); returns the forest
\* (findSet compresses paths) and closestEdge
FindClosestEdge(edgeListPart, set, closestEdge, j) ==
    IF j \in DOMAIN edgeListPart
    THEN ScanFrom(edgeListPart, closestEdge, j,
                  findSet(set, edgeListPart[j][1]))
    ELSE [set |-> set, closestEdge |-> closestEdge]

\* a combination in which the received edge wins when it is not heavier
CombineOnTie(closestEdge, closestEdgeRecieved) ==
    [i \in DOMAIN closestEdge |->
        IF closestEdgeRecieved[i][3] <= closestEdge[i][3]
        THEN closestEdgeRecieved[i]
        ELSE closestEdge[i]]

\* a combination that keeps the heavier of the two edges
CombineHeavier(closestEdge, closestEdgeRecieved) ==
    [i \in DOMAIN closestEdge |->
        IF closestEdgeRecieved[i][3] > closestEdge[i][3]
        THEN closestEdgeRecieved[i]
        ELSE closestEdge[i]]

\* combine all closestEdge parts: the received edge wins when it is
\* strictly lighter
CombineClosestEdge(closestEdge, closestEdgeRecieved) ==
    [i \in DOMAIN closestEdge |->
        IF closestEdgeRecieved[i][3] < closestEdge[i][3]
        THEN closestEdgeRecieved[i]
        ELSE closestEdge[i]]

RECURSIVE AddNewEdges(_, _, _, _, _, _)

\* a loop body in which only rank 0 joins the two sets
AddTestRootOnly(rank, closestEdge, mst, edgesMST, j, canonicalFrom, f) ==
    IF canonicalFrom # f.ret
    THEN AddNewEdges(rank, closestEdge,
                     IF rank = 0
                     THEN [mst EXCEPT !.edgeList[edgesMST] = closestEdge[j]]
                     ELSE mst,
                     IF rank = 0
                     THEN unionSet(f.set, closestEdge[j][1], closestEdge[j][2])
                     ELSE f.set,
                     edgesMST + 1, j + 1)
    ELSE AddNewEdges(rank, closestEdge, mst, f.set, edgesMST, j + 1)

\* the body of the last loop once both canonical elements are known
AddTest(rank, closestEdge, mst, edgesMST, j, canonicalFrom, f) ==
    IF canonicalFrom # f.ret
    THEN AddNewEdges(rank, closestEdge,
                     IF rank = 0
                     THEN [mst EXCEPT !.edgeList[edgesMST] = closestEdge[j]]
                     ELSE mst,
                     unionSet(f.set, closestEdge[j][1], closestEdge[j][2]),
                     edgesMST + 1, j + 1)
    ELSE AddNewEdges(rank, closestEdge, mst, f.set, edgesMST, j + 1)

AddFrom(rank, closestEdge, mst, edgesMST, j, f) ==
    AddTest(rank, closestEdge, mst, edgesMST, j, f.ret,
            findSet(f.set, closestEdge[j][2]))

\* add new edges to MST: for (j = 0; j < vertices; j++); returns the MST,
\* the forest and edgesMST
AddNewEdges(rank, closestEdge, mst, set, edgesMST, j) ==
    IF j \in DOMAIN closestEdge
    THEN IF closestEdge[j][3] # INT_MAX
         THEN AddFrom(rank, closestEdge, mst, edgesMST, j,
                      findSet(set, closestEdge[j][1]))
         ELSE AddNewEdges(rank, closestEdge, mst, set, edgesMST, j + 1)
    ELSE [mst |-> mst, set |-> set, edgesMST |-> edgesMST]

----------------------------------------------------------------------------
(* Prim: the adjacency list and the two heaps behind one interface *)

\* malloc'ed ListElement
UninitListElement == [vertex |-> UNSET_ELEMENT, weight |-> UNSET_ELEMENT]

\* newAdjacencyList: one List of startSize = 4 slots per vertex
newAdjacencyList(vertices) ==
    ArrayOf(vertices, [alloced |-> 4, size |-> 0,
                       elements |-> ArrayOf(4, UninitListElement)])

\* pushAdjacencyList, the realloc of one List
ListGrow(l) ==
    IF l.size = l.alloced
    THEN [l EXCEPT
             !.elements = [i \in 0..(2 * l.alloced - 1) |->
                               IF i < l.alloced THEN l.elements[i]
                               ELSE UninitListElement],
             !.alloced = 2 * l.alloced]
    ELSE l

\* pushAdjacencyList, add element at the end of one (grown) List
ListAppend(l, vertex, weight) ==
    [l EXCEPT !.elements[l.size] = [vertex |-> vertex, weight |-> weight],
              !.size = l.size + 1]

\* pushAdjacencyList, i = 1: the List of `to` gets (from, weight)
PushSecond(list, from, to, weight) ==
    [list EXCEPT ![to] = ListAppend(ListGrow(@), from, weight)]

\* pushAdjacencyList: i = 0, the List of `from` gets (to, weight), then i = 1
pushAdjacencyList(list, from, to, weight) ==
    PushSecond([list EXCEPT ![from] = ListAppend(ListGrow(@), to, weight)],
               from, to, weight)

\* for (i = 0; i < graph->edges; i++) pushAdjacencyList(...)
RECURSIVE FillAdjacencyList(_, _, _)
FillAdjacencyList(list, graph, i) ==
    IF i < graph.edges
    THEN FillAdjacencyList(
             pushAdjacencyList(list, graph.edgeList[i][1],
                               graph.edgeList[i][2], graph.edgeList[i][3]),
             graph, i + 1)
    ELSE list

\* the heap of mstPrimFibonacci (algorithm 1) and of mstPrimBinary (2)
NewHeap(algorithm, vertices) ==
    IF algorithm = 1 THEN newFibonacciMinHeap(vertices)
    ELSE newBinaryMinHeap(vertices)

PushHeap(algorithm, heap, vertex, via, weight) ==
    IF algorithm = 1 THEN pushFibonacciMinHeap(heap, vertex, via, weight)
    ELSE pushBinaryMinHeap(heap, vertex, via, weight)

DecreaseHeap(algorithm, heap, vertex, via, weight) ==
    IF algorithm = 1 THEN decreaseFibonacciMinHeap(heap, vertex, via, weight)
    ELSE decreaseBinaryMinHeap(heap, vertex, via, weight)

PopHeap(algorithm, heap) ==
    IF algorithm = 1 THEN popFibonacciMinHeap(heap)
    ELSE popBinaryMinHeap(heap)

\* for (i = 0; i < graph->vertices; i++) push(heap, i, INT_MAX, INT_MAX)
RECURSIVE PushVertices(_, _, _, _)
PushVertices(algorithm, heap, vertices, i) ==
    IF i < vertices
    THEN PushVertices(algorithm,
                      PushHeap(algorithm, heap, i, INT_MAX, INT_MAX),
                      vertices, i + 1)
    ELSE heap

\* for (j = 0; j < list->lists[vertex].size; j++) decrease(heap,
\* elements[j].vertex, vertex, elements[j].weight)
RECURSIVE UpdateHeap(_, _, _, _, _)
UpdateHeap(algorithm, heap, l, vertex, j) ==
    IF j < l.size
    THEN UpdateHeap(algorithm,
                    DecreaseHeap(algorithm, heap, l.elements[j].vertex,
                                 vertex, l.elements[j].weight),
                    l, vertex, j + 1)
    ELSE heap

\* the heap after a pop and the update of the neighbours of the popped
\* vertex, together with the popped entry
UpdateAfterPop(algorithm, list, r) ==
    [r EXCEPT !.heap = UpdateHeap(algorithm, r.heap, list[r.vertex],
                                  r.vertex, 0)]

\* start at first vertex: decrease(heap, 0, 0, 0), pop, update
PrimStart(algorithm, list, heap) ==
    UpdateAfterPop(algorithm, list,
                   PopHeap(algorithm, DecreaseHeap(algorithm, heap, 0, 0, 0)))

\* one round of for (i = 0; heap->size > 0; i++): pop, write the popped
\* entry as (vertex, via, weight), update
PrimRound(algorithm, list, heap) ==
    UpdateAfterPop(algorithm, list, PopHeap(algorithm, heap))


----------------------------------------------------------------------------
(* SpecSet: a fresh forest under arbitrary findSet and unionSet calls *)

SetIdle == [elements |-> 0, canonicalElements |-> <<>>, rank |-> <<>>]
HeapIdle == <<>>
HistIdle == <<>>

\* main() is not run: *graph as main declares it, no ranks
GraphIdle == [vertices |-> 0, edges |-> 0, edgeList |-> <<>>]

MainIdle ==
    /\ handle = [algorithm |-> UNSET_ELEMENT]
    /\ worldSize = 0
    /\ input = GraphIdle
    /\ mainGraph = GraphIdle
    /\ mainMst = GraphIdle
    /\ pc = <<>>
    /\ local = <<>>
    /\ channel = <<>>

InitSet ==
    /\ dsSet = newSet(MaxSetElements)
    /\ dsPairs = {}
    /\ heapKind = "none"
    /\ bheap = HeapIdle
    /\ fheap = HeapIdle
    /\ hist = HistIdle
    /\ MainIdle

DsFind(x) ==
    /\ dsSet' = findSet(dsSet, x).set
    /\ UNCHANGED <<dsPairs, heapKind, bheap, fheap, hist>>
    /\ UNCHANGED mstVars

DsUnion(a, b) ==
    /\ dsSet' = unionSet(dsSet, a, b)
    /\ dsPairs' = IF a = b THEN dsPairs ELSE dsPairs \cup {{a, b}}
    /\ UNCHANGED <<heapKind, bheap, fheap, hist>>
    /\ UNCHANGED mstVars

NextSet ==
    \/ \E x \in 0..(MaxSetElements - 1) : DsFind(x)
    \/ \E a, b \in 0..(MaxSetElements - 1) : DsUnion(a, b)

SpecSet == InitSet /\ [][NextSet]_vars

\* x and y are joined by a chain of the pairs in ps (the reflexive,
\* symmetric and transitive closure of ps), computed by growing the class
\* of x one pair at a time
RECURSIVE ClassOf(_, _)
ClassOf(class, ps) ==
    LET more == {z \in UNION ps : \E p \in ps : z \in p /\ p \cap class # {}}
    IN  IF more \subseteq class THEN class ELSE ClassOf(class \cup more, ps)

InUnionClosure(x, y, ps) == y \in ClassOf({x}, ps)

\* the roots of x and y, found one after the other, and the root of the
\* root of x
RootsOf(fx, fy) == <<fx.ret, fy.ret, findSet(fy.set, fx.ret).ret>>
RootsAfter(fx, y) == RootsOf(fx, findSet(fx.set, y))
Roots(set, x, y) == RootsAfter(findSet(set, x), y)

\* C8: after any sequence of union and find calls on a fresh forest,
\* find(x) = find(y) exactly when x and y are connected in the closure of
\* the unioned pairs, and find(find(x)) = find(x) for every x
C8_UnionFindClosure ==
    \A x, y \in 0..(MaxSetElements - 1) :
        /\ (Roots(dsSet, x, y)[1] = Roots(dsSet, x, y)[2])
               <=> InUnionClosure(x, y, dsPairs)
        /\ Roots(dsSet, x, y)[3] = Roots(dsSet, x, y)[1]

\* a forest in which three elements were joined by two unions and another
\* element is still in a class of its own
C8_Witness ==
    /\ Cardinality(dsPairs) >= 2
    /\ \E x, y, z \in 0..(MaxSetElements - 1) :
        /\ x # y /\ y # z /\ x # z
        /\ dsSet.canonicalElements[x] = y
        /\ dsSet.canonicalElements[z] = y
        /\ findSet(dsSet, x).ret = findSet(dsSet, z).ret
    /\ \E u, v \in 0..(MaxSetElements - 1) :
        findSet(dsSet, u).ret # findSet(dsSet, v).ret

----------------------------------------------------------------------------
(* SpecHeap: one heap, binary or Fibonacci, under arbitrary push, decrease *)
(* and pop calls.  Every vertex is pushed at most once, pop is called on a *)
(* non-empty heap and decrease on a vertex that was pushed, as the two     *)
(* Prim drivers do: positions[] of a vertex never pushed is uninitialised. *)
(*                                                                         *)
(* hist records the calls, independently of the heap's own bookkeeping:    *)
(*   pushed       the vertices pushed so far                               *)
(*   popped       the <<vertex, via, weight>> triples returned by pop      *)
(*   expect       vertex -> <<via, weight>> set by its push and by every   *)
(*                decrease that came with a strictly smaller weight while  *)
(*                the vertex had been pushed and not yet popped            *)
(*   pushesOnly   no decrease was called and no push followed a pop        *)
(*   idleChanged  a decrease that had to leave the heap alone (weight not  *)
(*                smaller, or vertex already popped) changed the via or    *)
(*                the weight of an entry                                   *)

HeapVertices == 0..(MaxHeapVertices - 1)
HeapWeights == 0..MaxHeapWeight
HeapVias == 0..MaxHeapVia

PoppedVertices(h) == {h.popped[i][1] : i \in DOMAIN h.popped}
InHeap(h) == h.pushed \ PoppedVertices(h)

HistInit ==
    [pushed |-> {}, popped |-> <<>>, expect |-> <<>>,
     pushesOnly |-> TRUE, idleChanged |-> FALSE]

HistPush(h, vertex, via, weight) ==
    [h EXCEPT !.pushed = @ \cup {vertex},
              !.expect = (vertex :> <<via, weight>>) @@ h.expect,
              !.pushesOnly = @ /\ h.popped = <<>>]

HistDecrease(h, vertex, via, weight, before, after) ==
    IF vertex \in InHeap(h) /\ h.expect[vertex][2] > weight
    THEN [h EXCEPT !.expect[vertex] = <<via, weight>>,
                   !.pushesOnly = FALSE]
    ELSE [h EXCEPT !.idleChanged = @ \/ before # after,
                   !.pushesOnly = FALSE]

HistPop(h, r) ==
    [h EXCEPT !.popped = Append(@, <<r.vertex, r.via, r.weight>>)]

InitHeap ==
    /\ dsSet = SetIdle
    /\ dsPairs = {}
    /\ heapKind \in {"binary", "fibonacci"}
    /\ bheap = IF heapKind = "binary"
               THEN newBinaryMinHeap(MaxHeapVertices) ELSE HeapIdle
    /\ fheap = IF heapKind = "fibonacci"
               THEN newFibonacciMinHeap(MaxHeapVertices) ELSE HeapIdle
    /\ hist = HistInit
    /\ MainIdle

HeapPushBinary(vertex, via, weight) ==
    /\ heapKind = "binary"
    /\ vertex \notin hist.pushed
    /\ bheap' = pushBinaryMinHeap(bheap, vertex, via, weight)
    /\ hist' = HistPush(hist, vertex, via, weight)
    /\ UNCHANGED <<dsSet, dsPairs, heapKind, fheap>>
    /\ UNCHANGED mstVars

HeapDecreaseBinary(vertex, via, weight) ==
    /\ heapKind = "binary"
    /\ vertex \in hist.pushed
    /\ bheap' = decreaseBinaryMinHeap(bheap, vertex, via, weight)
    /\ hist' = HistDecrease(hist, vertex, via, weight,
                            BinaryEntries(bheap), BinaryEntries(bheap'))
    /\ UNCHANGED <<dsSet, dsPairs, heapKind, fheap>>
    /\ UNCHANGED mstVars

HeapPopBinary ==
    /\ heapKind = "binary"
    /\ bheap.size > 0
    /\ LET r == popBinaryMinHeap(bheap)
       IN  /\ bheap' = r.heap
           /\ hist' = HistPop(hist, r)
    /\ UNCHANGED <<dsSet, dsPairs, heapKind, fheap>>
    /\ UNCHANGED mstVars

HeapPushFibonacci(vertex, via, weight) ==
    /\ heapKind = "fibonacci"
    /\ vertex \notin hist.pushed
    /\ fheap' = pushFibonacciMinHeap(fheap, vertex, via, weight)
    /\ hist' = HistPush(hist, vertex, via, weight)
    /\ UNCHANGED <<dsSet, dsPairs, heapKind, bheap>>
    /\ UNCHANGED mstVars

HeapDecreaseFibonacci(vertex, via, weight) ==
    /\ heapKind = "fibonacci"
    /\ vertex \in hist.pushed
    /\ fheap' = decreaseFibonacciMinHeap(fheap, vertex, via, weight)
    /\ hist' = HistDecrease(hist, vertex, via, weight,
                            FibonacciEntries(fheap), FibonacciEntries(fheap'))
    /\ UNCHANGED <<dsSet, dsPairs, heapKind, bheap>>
    /\ UNCHANGED mstVars

HeapPopFibonacci ==
    /\ heapKind = "fibonacci"
    /\ fheap.size > 0
    /\ LET r == popFibonacciMinHeap(fheap)
       IN  /\ fheap' = r.heap
           /\ hist' = HistPop(hist, r)
    /\ UNCHANGED <<dsSet, dsPairs, heapKind, bheap>>
    /\ UNCHANGED mstVars

NextHeap ==
    \/ \E v \in HeapVertices, via \in HeapVias, w \in HeapWeights :
           HeapPushBinary(v, via, w)
    \/ \E v \in HeapVertices, via \in HeapVias, w \in HeapWeights :
           HeapDecreaseBinary(v, via, w)
    \/ HeapPopBinary
    \/ \E v \in HeapVertices, via \in HeapVias, w \in HeapWeights :
           HeapPushFibonacci(v, via, w)
    \/ \E v \in HeapVertices, via \in HeapVias, w \in HeapWeights :
           HeapDecreaseFibonacci(v, via, w)
    \/ HeapPopFibonacci

SpecHeap == InitHeap /\ [][NextHeap]_vars

\* SpecTrip: one heap, binary or Fibonacci, filled by pushes and then
\* emptied by pops.  The vertices are pushed in the order 0, 1, 2, ... (as
\* both Prim drivers push them) with any sequence of weights.
InitTrip ==
    /\ dsSet = SetIdle
    /\ dsPairs = {}
    /\ heapKind \in {"binary", "fibonacci"}
    /\ bheap = IF heapKind = "binary"
               THEN newBinaryMinHeap(MaxTripVertices) ELSE HeapIdle
    /\ fheap = IF heapKind = "fibonacci"
               THEN newFibonacciMinHeap(MaxTripVertices) ELSE HeapIdle
    /\ hist = HistInit
    /\ MainIdle

NextTrip ==
    \/ \E w \in HeapWeights :
           /\ hist.popped = <<>>
           /\ Cardinality(hist.pushed) < MaxTripVertices
           /\ HeapPushBinary(Cardinality(hist.pushed), 0, w)
    \/ HeapPopBinary
    \/ \E w \in HeapWeights :
           /\ hist.popped = <<>>
           /\ Cardinality(hist.pushed) < MaxTripVertices
           /\ HeapPushFibonacci(Cardinality(hist.pushed), 0, w)
    \/ HeapPopFibonacci

SpecTrip == InitTrip /\ [][NextTrip]_vars

HeapSize == IF heapKind = "binary" THEN bheap.size ELSE fheap.size

\* C9: for either heap, after pushing weights under distinct vertex ids and
\* then only popping, the popped weights are in non-decreasing order, no
\* vertex is returned twice, and once the heap is empty every pushed vertex
\* has been returned
C9_HeapRoundTrip ==
    (heapKind # "none" /\ hist.pushesOnly) =>
        /\ \A i, j \in DOMAIN hist.popped :
               i < j => /\ hist.popped[i][3] <= hist.popped[j][3]
                        /\ hist.popped[i][1] # hist.popped[j][1]
        /\ PoppedVertices(hist) \subseteq hist.pushed
        /\ HeapSize = Cardinality(hist.pushed) - Len(hist.popped)
        /\ HeapSize = 0 => PoppedVertices(hist) = hist.pushed

\* a Fibonacci heap of at least five vertices, pushed with weights that
\* were not in order and include a tie, has been emptied by pops
C9_Witness ==
    /\ heapKind = "fibonacci" /\ hist.pushesOnly
    /\ Cardinality(hist.pushed) >= 5
    /\ Len(hist.popped) = Cardinality(hist.pushed)
    /\ HeapSize = 0
    /\ \E v, u \in hist.pushed :
           v < u /\ hist.expect[v][2] > hist.expect[u][2]
    /\ \E i, j \in DOMAIN hist.popped :
           i # j /\ hist.popped[i][3] = hist.popped[j][3]
    /\ \E i, j \in DOMAIN hist.popped : hist.popped[i][3] < hist.popped[j][3]

\* every pop so far returned its vertex with the via and the weight of the
\* last decrease that had to take effect (or of the push, if there was none)
PopsReturnExpected ==
    \A i \in DOMAIN hist.popped :
        LET v == hist.popped[i][1]
        IN  hist.popped[i] = <<v, hist.expect[v][1], hist.expect[v][2]>>

\* C10: for either heap, after any pushes, pops and decreases, the pop that
\* returns v returns the via and weight of the last decrease called while v
\* was in the heap with a strictly greater stored weight; a decrease with a
\* weight not strictly smaller, or on a vertex already popped, changes
\* neither via nor weight of any entry
C10_DecreaseFidelity ==
    heapKind # "none" => PopsReturnExpected /\ ~hist.idleChanged

----------------------------------------------------------------------------
(* SpecMST: main() on a cohort of worldSize ranks.  Rank 0 has read the    *)
(* graph file; every rank calls the algorithm of handle.algorithm.         *)
(*                                                                         *)
(* pc[rank] is where the rank stands:                                      *)
(*   "start"      before the call of the algorithm                         *)
(*   "mergeSort"  sort: before sorting its part                            *)
(*   "merge"      sort: blocked in MPI_Recv of the tree merge              *)
(*   "loop"       mstKruskal: rank 0 before the loop over the edges        *)
(*   "find"       mstBoruvka: before resetting and finding closestEdge     *)
(*   "combine"    mstBoruvka: blocked in MPI_Recv of the tree reduce       *)
(*   "publish"    mstBoruvka: before MPI_Bcast of closestEdge              *)
(*   "add"        mstBoruvka: before adding the new edges                  *)
(*   "prim"       mstPrim*: rank 0 in the loop over the heap               *)
(*   "done"       returned from the algorithm                              *)
(*   "exited"     exit(EXIT_FAILURE) of the topology check                 *)
(*   "crashed"    integer division by zero                                 *)
(*   "diverged"   in a recursion that does not return                      *)
(*   "overrun"    reading behind the edge list                             *)
(*   "wild"       indexing outside the forest, with an endpoint that is    *)
(*                no vertex of the graph                                   *)
(* MPI_Send is buffered: channel[rank] holds what rank has sent, each      *)
(* message with the rank it is for, until that rank receives it.           *)
(* MPI_Bcast and MPI_Scatter are taken by all ranks in one step.           *)
(* hist[rank] lists the MPI_Send and MPI_Recv calls of the rank in the     *)
(* tree merge of sort and in the tree reduce of the current phase.         *)
(***************************************************************************)

\* the connected simple graphs on the vertices 0..V-1 with at most MaxEdges
\* edges
VertexPairs(V) == {p \in (0..(V - 1)) \X (0..(V - 1)) : p[1] < p[2]}

ConnectedPairs(V, S) ==
    \A v \in 0..(V - 1) : InUnionClosure(0, v, {{p[1], p[2]} : p \in S})

PairSets(V) ==
    {S \in SUBSET VertexPairs(V) :
        Cardinality(S) <= MaxEdges /\ ConnectedPairs(V, S)}

\* the pairs of S in ascending order
RECURSIVE PairList(_)
PairList(S) ==
    IF S = {} THEN <<>>
    ELSE LET p == CHOOSE q \in S :
                      \A o \in S : q[1] * MaxVertices + q[2]
                                       <= o[1] * MaxVertices + o[2]
         IN  <<p>> \o PairList(S \ {p})

\* the file with the pairs of S in ascending or descending order, each
\* written as "low high weight" or as "high low weight"
FileOf(V, pairs, weights, descending, flipped) ==
    [vertices |-> V,
     edges |-> Len(pairs),
     edgeList |->
         [i \in 0..(Len(pairs) - 1) |->
             <<pairs[IF descending THEN Len(pairs) - i ELSE i + 1]
                    [IF flipped THEN 2 ELSE 1],
               pairs[IF descending THEN Len(pairs) - i ELSE i + 1]
                    [IF flipped THEN 1 ELSE 2],
               weights[i]>>]]

InputGraphs ==
    UNION {UNION {{FileOf(V, PairList(S), weights, descending, flipped) :
                       weights \in [0..(Cardinality(S) - 1) -> 1..MaxWeight],
                       descending \in BOOLEAN, flipped \in BOOLEAN} :
                  S \in PairSets(V)} :
           V \in 1..MaxVertices}

\* what MPI_Scatter may read behind the root's buffer: here a zeroed edge,
\* an edge between the first two vertices that is lighter than every edge
\* of the file, or an edge to something that is no vertex of the graph
GarbageEdges == {<<0, 0, 0>>, <<0, 1, 0>>, <<0, MaxVertices, 0>>}

Ranks == 0..(worldSize - 1)

\* the locals of one rank that outlive a step
LocalIdle ==
    [set |-> SetIdle, edgeListPart |-> <<>>, elementsPart |-> 0,
     step |-> 0, closestEdge |-> <<>>, edgesMST |-> 0, i |-> 0,
     list |-> <<>>]

\* newWeightedGraph: calloc'ed edge list
newWeightedGraph(vertices, edges) ==
    [vertices |-> vertices, edges |-> edges,
     edgeList |-> ArrayOf(edges, <<0, 0, 0>>)]

InitMST ==
    /\ dsSet = SetIdle
    /\ dsPairs = {}
    /\ heapKind = "none"
    /\ bheap = HeapIdle
    /\ fheap = HeapIdle
    /\ handle \in [algorithm : 0..3]
    /\ worldSize \in 1..MaxSize
    /\ input \in InputGraphs
    /\ mainGraph = input
    /\ mainMst = newWeightedGraph(input.vertices, input.vertices - 1)
    /\ pc = [rank \in Ranks |-> "start"]
    /\ local = [rank \in Ranks |-> LocalIdle]
    /\ channel = [rank \in Ranks |-> <<>>]
    /\ hist = [rank \in Ranks |-> <<>>]

\* the loop of the tree merge and of the tree reduce from `step` on:
\* for (; step < size; step *= 2), up to the next MPI_Recv or the end of
\* the loop; sends are the steps at which the rank comes to its MPI_Send
\* on the way, which does not block
RECURSIVE TreeNext(_, _, _, _)
TreeNext(rank, cohort, step, sends) ==
    IF step >= cohort
    THEN [kind |-> "end", step |-> step, sends |-> sends]
    ELSE IF CMod(rank, 2 * step) = 0
         THEN IF rank + step < cohort
              THEN [kind |-> "recv", step |-> step, sends |-> sends]
              ELSE TreeNext(rank, cohort, 2 * step, sends)
    ELSE IF CMod(rank, step) = 0
         THEN TreeNext(rank, cohort, 2 * step, Append(sends, step))
    ELSE TreeNext(rank, cohort, 2 * step, sends)

\* MPI_Send(..., to = rank - step, ...) at each of the steps of `sends`
SendsOf(rank, sends, message) ==
    [k \in 1..Len(sends) |-> [to |-> rank - sends[k], message |-> message]]

\* MPI_Recv(..., from, ...) on `rank` finds a message of `from` for it
Arrived(rank, from) ==
    /\ from \in Ranks
    /\ channel[from] # <<>>
    /\ Head(channel[from]).to = rank

\* the calls a rank has made in the current tree merge or tree reduce
SendCalls(rank, sends) ==
    [k \in 1..Len(sends) |-> <<"send", rank - sends[k]>>]

\* what the slots behind the root's buffer may read as in this run
Fillers ==
    IF ScatterReadsBehind(mainGraph.edges, worldSize)
    THEN GarbageEdges ELSE {<<0, 0, 0>>}

\* sort and mstBoruvka up to the scatter: elementsPart, then
\* scatterEdgeList if (parallel), else edgeListPart = graph->edgeList
Scattered(rank, filler) ==
    IF worldSize # 1
    THEN scatterEdgeList(mainGraph.edgeList, mainGraph.edges,
                         ElementsPart(mainGraph.edges, worldSize),
                         rank, worldSize, filler)
    ELSE [pc |-> "scattered", edgeListPart |-> mainGraph.edgeList,
          elementsPart |-> ElementsPart(mainGraph.edges, worldSize)]

\* realloc of a to n + m edges and MPI_Recv of the m edges of b behind the
\* n edges of a
ReceiveBehind(a, n, b, m) ==
    [j \in 0..(n + m - 1) |-> IF j < n THEN a[j] ELSE b[j - n]]

\* ---- mstKruskal

\* mstKruskal up to mergeSort: newSet, then sort with MPI_Bcast of the
\* number of edges and the scatter
KruskalEnter(filler) ==
    /\ handle.algorithm = 0
    /\ \A rank \in Ranks : pc[rank] = "start"
    /\ pc' = [rank \in Ranks |->
                 IF Scattered(rank, filler).pc = "scattered"
                 THEN "mergeSort" ELSE Scattered(rank, filler).pc]
    /\ local' = [rank \in Ranks |->
                    IF Scattered(rank, filler).pc = "scattered"
                    THEN [LocalIdle EXCEPT
                             !.set = newSet(IF rank = 0
                                            THEN mainGraph.vertices ELSE 0),
                             !.edgeListPart =
                                 Scattered(rank, filler).edgeListPart,
                             !.elementsPart =
                                 Scattered(rank, filler).elementsPart]
                    ELSE LocalIdle]
    /\ UNCHANGED <<dsSet, dsPairs, heapKind, bheap, fheap, hist, handle,
                   worldSize, input, mainGraph, mainMst, channel>>

\* sort, the tree merge up to the next MPI_Recv or the end of the loop; loc
\* are the locals of rank, chan is the channel and calls are the calls of
\* the rank as it comes here.  After the loop rank 0 installs its part as
\* the edge list of the graph and goes on in mstKruskal; the other ranks
\* free their part and return
SortProceed(rank, loc, chan, calls, next) ==
    /\ pc' = [pc EXCEPT ![rank] =
                 IF next.kind = "recv" THEN "merge"
                 ELSE IF rank = 0 THEN "loop" ELSE "done"]
    /\ local' = [local EXCEPT ![rank] =
                    IF next.kind = "recv" THEN [loc EXCEPT !.step = next.step]
                    ELSE IF rank = 0 THEN [loc EXCEPT !.edgeListPart = <<>>]
                    ELSE LocalIdle]
    /\ channel' = [chan EXCEPT ![rank] =
                      @ \o SendsOf(rank, next.sends,
                                   [elements |-> loc.elementsPart,
                                    edgeList |-> loc.edgeListPart])]
    /\ hist' = [hist EXCEPT ![rank] = calls \o SendCalls(rank, next.sends)]
    /\ mainGraph' = IF next.kind = "end" /\ rank = 0
                    THEN [mainGraph EXCEPT !.edgeList = loc.edgeListPart]
                    ELSE mainGraph

\* sort: mergeSort(edgeListPart, 0, elementsPart - 1), then into the loop
SortPart(rank) ==
    /\ pc[rank] = "mergeSort"
    /\ IF MergeSortReturns(0, local[rank].elementsPart - 1)
       THEN SortProceed(rank,
                        [local[rank] EXCEPT
                            !.edgeListPart =
                                mergeSort(@, 0,
                                          local[rank].elementsPart - 1)],
                        channel, hist[rank],
                        TreeNext(rank, worldSize, 1, <<>>))
       ELSE /\ pc' = [pc EXCEPT ![rank] = "diverged"]
            /\ UNCHANGED <<local, channel, hist, mainGraph>>
    /\ UNCHANGED <<dsSet, dsPairs, heapKind, bheap, fheap, handle,
                   worldSize, input, mainMst>>

\* sort: the two MPI_Recv from rank + step, realloc, merge, and on in the
\* loop
SortMerge(rank) ==
    /\ pc[rank] = "merge"
    /\ Arrived(rank, rank + local[rank].step)
    /\ SortProceed(
           rank,
           [local[rank] EXCEPT
               !.edgeListPart =
                   merge(ReceiveBehind(
                             @, local[rank].elementsPart,
                             Head(channel[rank + local[rank].step])
                                 .message.edgeList,
                             Head(channel[rank + local[rank].step])
                                 .message.elements),
                         0,
                         local[rank].elementsPart
                             + Head(channel[rank + local[rank].step])
                                   .message.elements
                             - 1,
                         local[rank].elementsPart - 1),
               !.elementsPart =
                   @ + Head(channel[rank + local[rank].step])
                           .message.elements],
           [channel EXCEPT ![rank + local[rank].step] = Tail(@)],
           Append(hist[rank], <<"recv", rank + local[rank].step>>),
           TreeNext(rank, worldSize, 2 * local[rank].step, <<>>))
    /\ UNCHANGED <<dsSet, dsPairs, heapKind, bheap, fheap, handle,
                   worldSize, input, mainMst>>

\* mstKruskal, rank 0 after the loop: deleteSet and return
KruskalReturn(r) ==
    /\ mainMst' = r.mst
    /\ local' = [local EXCEPT ![0] =
                    [LocalIdle EXCEPT !.edgesMST = r.edgesMST,
                                      !.i = r.currentEdge]]
    /\ pc' = [pc EXCEPT ![0] = IF r.fault = "none" THEN "done" ELSE r.fault]

\* mstKruskal, rank 0: add edges to the MST
KruskalAdd ==
    /\ handle.algorithm = 0
    /\ pc[0] = "loop"
    /\ KruskalReturn(KruskalLoop(mainGraph, mainMst, local[0].set, 0, 0))
    /\ UNCHANGED <<dsSet, dsPairs, heapKind, bheap, fheap, hist, handle,
                   worldSize, input, mainGraph, channel>>

\* ---- mstBoruvka

\* for (i = 1; i < vertices && edgesMST < vertices - 1; i *= 2)
BoruvkaGoesOn(i, edgesMST) ==
    i < mainGraph.vertices /\ edgesMST < mainGraph.vertices - 1

\* mstBoruvka up to the loop: the two MPI_Bcast, the scatter, newSet and
\* the malloc of closestEdge
BoruvkaEnter(filler) ==
    /\ handle.algorithm = 3
    /\ \A rank \in Ranks : pc[rank] = "start"
    /\ pc' = [rank \in Ranks |->
                 IF Scattered(rank, filler).pc = "scattered"
                 THEN IF BoruvkaGoesOn(1, 0) THEN "find" ELSE "done"
                 ELSE Scattered(rank, filler).pc]
    /\ local' = [rank \in Ranks |->
                    IF Scattered(rank, filler).pc = "scattered"
                    THEN [LocalIdle EXCEPT
                             !.set = newSet(mainGraph.vertices),
                             !.edgeListPart =
                                 Scattered(rank, filler).edgeListPart,
                             !.elementsPart =
                                 Scattered(rank, filler).elementsPart,
                             !.closestEdge =
                                 ArrayOf(mainGraph.vertices, UninitEdge),
                             !.i = 1]
                    ELSE LocalIdle]
    /\ UNCHANGED <<dsSet, dsPairs, heapKind, bheap, fheap, hist, handle,
                   worldSize, input, mainGraph, mainMst, channel>>

\* mstBoruvka, the tree reduce up to the next MPI_Recv or the end of the
\* loop, where the rank comes to the MPI_Bcast
ReduceProceed(rank, loc, chan, calls, next) ==
    /\ pc' = [pc EXCEPT ![rank] =
                 IF next.kind = "recv" THEN "combine" ELSE "publish"]
    /\ local' = [local EXCEPT ![rank] =
                    IF next.kind = "recv" THEN [loc EXCEPT !.step = next.step]
                    ELSE loc]
    /\ channel' = [chan EXCEPT ![rank] =
                      @ \o SendsOf(rank, next.sends, loc.closestEdge)]
    /\ hist' = [hist EXCEPT ![rank] = calls \o SendCalls(rank, next.sends)]

\* mstBoruvka after the scan of the part
FindReturn(rank, r) ==
    IF worldSize # 1
    THEN ReduceProceed(rank,
                       [local[rank] EXCEPT !.set = r.set,
                                           !.closestEdge = r.closestEdge],
                       channel, hist[rank],
                       TreeNext(rank, worldSize, 1, <<>>))
    ELSE /\ pc' = [pc EXCEPT ![rank] = "add"]
         /\ local' = [local EXCEPT ![rank] =
                         [@ EXCEPT !.set = r.set,
                                   !.closestEdge = r.closestEdge]]
         /\ UNCHANGED <<channel, hist>>

\* mstBoruvka: reset all closestEdge, find closestEdge, and into the reduce
BoruvkaFind(rank) ==
    /\ pc[rank] = "find"
    /\ IF \A j \in DOMAIN local[rank].edgeListPart :
              InForest(local[rank].set, local[rank].edgeListPart[j])
       THEN FindReturn(rank,
                       FindClosestEdge(
                           local[rank].edgeListPart, local[rank].set,
                           ResetClosestEdge(local[rank].closestEdge), 0))
       ELSE /\ pc' = [pc EXCEPT ![rank] = "wild"]
            /\ UNCHANGED <<local, channel, hist>>
    /\ UNCHANGED <<dsSet, dsPairs, heapKind, bheap, fheap, handle,
                   worldSize, input, mainGraph, mainMst>>

\* mstBoruvka: MPI_Recv from rank + step, combine, and on in the loop
BoruvkaCombine(rank) ==
    /\ pc[rank] = "combine"
    /\ Arrived(rank, rank + local[rank].step)
    /\ ReduceProceed(
           rank,
           [local[rank] EXCEPT
               !.closestEdge =
                   CombineClosestEdge(
                       @, Head(channel[rank + local[rank].step]).message)],
           [channel EXCEPT ![rank + local[rank].step] = Tail(@)],
           Append(hist[rank], <<"recv", rank + local[rank].step>>),
           TreeNext(rank, worldSize, 2 * local[rank].step, <<>>))
    /\ UNCHANGED <<dsSet, dsPairs, heapKind, bheap, fheap, handle,
                   worldSize, input, mainGraph, mainMst>>

\* mstBoruvka: publish all closestEdge parts, MPI_Bcast from rank 0; the
\* tree reduce of the phase is over
BoruvkaPublish ==
    /\ handle.algorithm = 3
    /\ \A rank \in Ranks : pc[rank] = "publish"
    /\ pc' = [rank \in Ranks |-> "add"]
    /\ local' = [rank \in Ranks |->
                    [local[rank] EXCEPT
                        !.closestEdge = local[0].closestEdge]]
    /\ hist' = [rank \in Ranks |-> <<>>]
    /\ UNCHANGED <<dsSet, dsPairs, heapKind, bheap, fheap, handle,
                   worldSize, input, mainGraph, mainMst, channel>>

\* mstBoruvka after the last loop of a phase: i *= 2 and the loop condition;
\* on leaving, deleteSet and the frees
AddReturn(rank, r) ==
    /\ mainMst' = r.mst
    /\ local' = [local EXCEPT ![rank] =
                    IF BoruvkaGoesOn(2 * local[rank].i, r.edgesMST)
                    THEN [@ EXCEPT !.set = r.set, !.edgesMST = r.edgesMST,
                                   !.i = 2 * @]
                    ELSE [LocalIdle EXCEPT !.edgesMST = r.edgesMST,
                                           !.i = 2 * local[rank].i]]
    /\ pc' = [pc EXCEPT ![rank] =
                 IF BoruvkaGoesOn(2 * local[rank].i, r.edgesMST)
                 THEN "find" ELSE "done"]

\* mstBoruvka: add new edges to MST
BoruvkaAdd(rank) ==
    /\ pc[rank] = "add"
    /\ AddReturn(rank,
                 AddNewEdges(rank, local[rank].closestEdge, mainMst,
                             local[rank].set, local[rank].edgesMST, 0))
    /\ UNCHANGED <<dsSet, dsPairs, heapKind, bheap, fheap, hist, handle,
                   worldSize, input, mainGraph, channel>>

\* ---- mstPrimFibonacci (algorithm 1) and mstPrimBinary (algorithm 2)

\* the heap of rank 0 lives in fheap or in bheap
PrimHeap == IF handle.algorithm = 1 THEN fheap ELSE bheap

PrimKeep(heap) ==
    /\ fheap' = IF handle.algorithm = 1 THEN heap ELSE fheap
    /\ bheap' = IF handle.algorithm = 1 THEN bheap ELSE heap

\* mstPrim*, after the start at the first vertex
StartReturn(list, r) ==
    /\ PrimKeep(r.heap)
    /\ local' = [rank \in Ranks |->
                    IF rank = 0 /\ r.heap.size > 0
                    THEN [LocalIdle EXCEPT !.list = list] ELSE LocalIdle]
    /\ pc' = [rank \in Ranks |->
                 IF rank = 0 /\ r.heap.size > 0 THEN "prim" ELSE "done"]

PrimStartWith(list) ==
    StartReturn(list,
                PrimStart(handle.algorithm, list,
                          PushVertices(handle.algorithm,
                                       NewHeap(handle.algorithm,
                                               mainGraph.vertices),
                                       mainGraph.vertices, 0)))

\* mstPrim* up to the loop over the heap: rank 0 builds the adjacency list
\* and the heap and starts at vertex 0; the other ranks return at once
PrimEnter ==
    /\ handle.algorithm \in {1, 2}
    /\ \A rank \in Ranks : pc[rank] = "start"
    /\ PrimStartWith(FillAdjacencyList(
                         newAdjacencyList(mainGraph.vertices), mainGraph, 0))
    /\ UNCHANGED <<dsSet, dsPairs, heapKind, hist, handle, worldSize, input,
                   mainGraph, mainMst, channel>>

\* mstPrim*, the end of one round: the popped entry is written to the MST;
\* after the last round deleteAdjacencyList
RoundReturn(r) ==
    /\ PrimKeep(r.heap)
    /\ mainMst' = [mainMst EXCEPT !.edgeList[local[0].i] =
                                      <<r.vertex, r.via, r.weight>>]
    /\ local' = [local EXCEPT ![0] =
                    IF r.heap.size > 0
                    THEN [@ EXCEPT !.i = @ + 1, !.edgesMST = @ + 1]
                    ELSE [LocalIdle EXCEPT !.i = local[0].i + 1,
                                           !.edgesMST = local[0].i + 1]]
    /\ pc' = [pc EXCEPT ![0] = IF r.heap.size > 0 THEN "prim" ELSE "done"]

\* mstPrim*, one round of for (i = 0; heap->size > 0; i++)
PrimStep ==
    /\ pc[0] = "prim"
    /\ RoundReturn(PrimRound(handle.algorithm, local[0].list, PrimHeap))
    /\ UNCHANGED <<dsSet, dsPairs, heapKind, hist, handle, worldSize, input,
                   mainGraph, channel>>

NextMST ==
    \/ \E filler \in Fillers : KruskalEnter(filler)
    \/ \E rank \in Ranks : SortPart(rank)
    \/ \E rank \in Ranks : SortMerge(rank)
    \/ KruskalAdd
    \/ \E filler \in Fillers : BoruvkaEnter(filler)
    \/ \E rank \in Ranks : BoruvkaFind(rank)
    \/ \E rank \in Ranks : BoruvkaCombine(rank)
    \/ BoruvkaPublish
    \/ \E rank \in Ranks : BoruvkaAdd(rank)
    \/ PrimEnter
    \/ PrimStep

SpecMST == InitMST /\ [][NextMST]_vars

----------------------------------------------------------------------------
(* The MST output against the graph that was read *)

\* rank 0 has returned from the algorithm into main
Returned == worldSize > 0 /\ pc[0] = "done"

\* the edges the algorithm wrote to the MST, in the order it wrote them
Emitted == [j \in 0..(local[0].edgesMST - 1) |-> mainMst.edgeList[j]]

\* the unordered pairs of the edges of an edge list
PairsOf(edgeList) == {{edgeList[j][1], edgeList[j][2]} : j \in DOMAIN edgeList}

\* main: for (i = 0; i < mst->edges; i++) weightMST += edgeList[i * 3 + 2]
RECURSIVE WeightOf(_, _)
WeightOf(mst, i) ==
    IF i < mst.edges THEN mst.edgeList[i][3] + WeightOf(mst, i + 1) ELSE 0

\* the spanning trees of a graph, as sets of indices into its edge list
SpanningTrees(graph) ==
    {T \in SUBSET DOMAIN graph.edgeList :
        /\ Cardinality(T) = graph.vertices - 1
        /\ \A v \in 0..(graph.vertices - 1) :
               InUnionClosure(0, v, {{graph.edgeList[j][1],
                                      graph.edgeList[j][2]} : j \in T})}

RECURSIVE TreeWeight(_, _)
TreeWeight(graph, T) ==
    IF T = {} THEN 0
    ELSE graph.edgeList[CHOOSE j \in T : TRUE][3]
             + TreeWeight(graph, T \ {CHOOSE j \in T : TRUE})

MinimumSpanningWeight(graph) ==
    CHOOSE w \in {TreeWeight(graph, T) : T \in SpanningTrees(graph)} :
        \A T \in SpanningTrees(graph) : w <= TreeWeight(graph, T)

\* C1: for every connected simple graph with at least two vertices run by
\* a cohort of one rank, each of the four algorithms returns edges whose
\* total weight is the minimum total weight over all spanning trees of the
\* graph, whether or not several edges have the same weight
C1_MinimumWeight ==
    (Returned /\ worldSize = 1 /\ input.vertices >= 2)
        => WeightOf(mainMst, 0) = MinimumSpanningWeight(input)

\* Boruvka alone has returned on a graph with a cycle, two edges of equal
\* weight and a spanning tree heavier than the minimum
C1_Witness ==
    /\ Returned /\ worldSize = 1 /\ handle.algorithm = 3
    /\ input.edges > input.vertices - 1
    /\ \E j, k \in DOMAIN input.edgeList :
           j # k /\ input.edgeList[j][3] = input.edgeList[k][3]
    /\ \E T \in SpanningTrees(input) :
           TreeWeight(input, T) > MinimumSpanningWeight(input)

\* C2: for every algorithm and every connected graph, the emitted edges
\* form no cycle over the vertices of the graph: every emitted edge joins
\* two vertices that the edges emitted before it had not connected
C2_Acyclic ==
    Returned =>
        \A k \in DOMAIN Emitted :
            /\ Emitted[k][1] \in 0..(input.vertices - 1)
            /\ Emitted[k][2] \in 0..(input.vertices - 1)
            /\ ~InUnionClosure(Emitted[k][1], Emitted[k][2],
                               {{Emitted[j][1], Emitted[j][2]} :
                                    j \in 0..(k - 1)})

\* Kruskal has returned on rank 0 of three ranks, on a graph with a cycle
C2_Witness ==
    /\ Returned /\ worldSize = 3 /\ handle.algorithm = 0
    /\ input.edges > input.vertices - 1
    /\ local[0].edgesMST = input.vertices - 1

\* C3: for every algorithm and every connected graph, when the algorithm
\* returns every vertex is reachable from vertex 0 over the emitted edges
C3_Spanning ==
    Returned =>
        \A v \in 0..(input.vertices - 1) :
            InUnionClosure(0, v, PairsOf(Emitted))

\* Boruvka has returned on rank 0 of two ranks after two phases on four
\* vertices
C3_Witness ==
    /\ Returned /\ worldSize = 2 /\ handle.algorithm = 3
    /\ input.vertices = 4
    /\ local[0].i = 4
    /\ local[0].edgesMST = 3

\* C4: for every algorithm and every connected graph with at least one
\* vertex, the one-vertex graph without edges included, the algorithm
\* returns, and it has then emitted exactly max(0, V - 1) edges
C4_Cardinality ==
    worldSize > 0 =>
        /\ pc[0] \notin {"diverged", "overrun", "wild"}
        /\ pc[0] = "done" =>
               local[0].edgesMST =
                   IF input.vertices - 1 > 0 THEN input.vertices - 1 ELSE 0

\* C5: for every algorithm and every connected graph, every emitted edge
\* has the unordered pair of endpoints and the weight of some edge of the
\* graph as it was read, so that no emitted edge carries INT_MAX
C5_EdgeValidity ==
    Returned =>
        \A k \in DOMAIN Emitted :
            \E j \in DOMAIN input.edgeList :
                /\ {input.edgeList[j][1], input.edgeList[j][2]}
                       = {Emitted[k][1], Emitted[k][2]}
                /\ input.edgeList[j][3] = Emitted[k][3]

\* mstKruskal with size = 1: sort is mergeSort of the whole edge list
KruskalSequential(graph) ==
    KruskalLoop([graph EXCEPT !.edgeList = mergeSort(@, 0, graph.edges - 1)],
                newWeightedGraph(graph.vertices, graph.vertices - 1),
                newSet(graph.vertices), 0, 0).mst

RECURSIVE BoruvkaPhases(_, _, _, _, _, _)

PhaseNext(graph, closestEdge, i, r) ==
    BoruvkaPhases(graph, r.mst, r.set, closestEdge, r.edgesMST, 2 * i)

PhaseAdd(graph, mst, edgesMST, i, s) ==
    PhaseNext(graph, s.closestEdge, i,
              AddNewEdges(0, s.closestEdge, mst, s.set, edgesMST, 0))

\* mstBoruvka with size = 1: the phases on the whole edge list
BoruvkaPhases(graph, mst, set, closestEdge, edgesMST, i) ==
    IF i < graph.vertices /\ edgesMST < graph.vertices - 1
    THEN PhaseAdd(graph, mst, edgesMST, i,
                  FindClosestEdge(graph.edgeList, set,
                                  ResetClosestEdge(closestEdge), 0))
    ELSE mst

BoruvkaSequential(graph) ==
    BoruvkaPhases(graph,
                  newWeightedGraph(graph.vertices, graph.vertices - 1),
                  newSet(graph.vertices),
                  ArrayOf(graph.vertices, UninitEdge), 0, 1)

\* C6: for every connected graph and every cohort size that passes the
\* topology check, Kruskal and Boruvka return the total weight they return
\* with a cohort of one rank
C6_CohortEquivalence ==
    (Returned /\ worldSize > 1 /\ handle.algorithm \in {0, 3})
        => WeightOf(mainMst, 0) =
               WeightOf(IF handle.algorithm = 0
                        THEN KruskalSequential(input)
                        ELSE BoruvkaSequential(input), 0)

\* rank 0 has left sort
Sorted ==
    /\ worldSize > 0
    /\ handle.algorithm = 0
    /\ pc[0] \in {"loop", "done", "overrun", "wild"}

\* C7: after the distributed sort with a cohort size that passes the
\* topology check, the edge list installed on rank 0 has exactly E edges, is
\* in non-decreasing order of weight and is a permutation of the edge list
\* that was read, every (from, to, weight) triple intact
C7_DistributedSort ==
    Sorted =>
        /\ DOMAIN mainGraph.edgeList = 0..(input.edges - 1)
        /\ \A j \in DOMAIN mainGraph.edgeList :
               j + 1 \in DOMAIN mainGraph.edgeList
                   => mainGraph.edgeList[j][3] <= mainGraph.edgeList[j + 1][3]
        /\ \A j \in DOMAIN mainGraph.edgeList :
               Cardinality({k \in DOMAIN mainGraph.edgeList :
                               mainGraph.edgeList[k] = mainGraph.edgeList[j]})
                   = Cardinality({k \in DOMAIN input.edgeList :
                                     input.edgeList[k]
                                         = mainGraph.edgeList[j]})

----------------------------------------------------------------------------
(* The topology check *)

\* the cohort has entered Kruskal's sort or Boruvka, which the topology
\* check of scatterEdgeList refuses
Refused ==
    /\ worldSize > 1
    /\ handle.algorithm \in {0, 3}
    /\ Unsupported(input.edges, worldSize)
    /\ \E rank \in Ranks : pc[rank] # "start"

\* C11: when size > 1, floor(E/2) + 1 < size and E # size, Kruskal's sort
\* and Boruvka end in the topology check: every rank reaches the check and
\* exits, no rank is left in a send, a receive or a collective, and no edge
\* is written to the MST
C11_UnsupportedTopology ==
    Refused =>
        /\ \A rank \in Ranks : pc[rank] = "exited"
        /\ \A rank \in Ranks : channel[rank] = <<>>
        /\ mainMst = newWeightedGraph(input.vertices, input.vertices - 1)

----------------------------------------------------------------------------
(* SpecDisconnected: main() on graph files that are not connected *)

\* the simple graphs on the vertices 0..V-1 with 1..MaxEdges edges that
\* are not connected
DisconnectedPairSets(V) ==
    {S \in SUBSET VertexPairs(V) :
        /\ Cardinality(S) \in 1..MaxEdges
        /\ ~ConnectedPairs(V, S)}

DisconnectedGraphs ==
    UNION {UNION {{FileOf(V, PairList(S), weights, descending, flipped) :
                       weights \in [0..(Cardinality(S) - 1) -> 1..MaxWeight],
                       descending \in BOOLEAN, flipped \in BOOLEAN} :
                  S \in DisconnectedPairSets(V)} :
           V \in 1..MaxVertices}

InitDisconnected ==
    /\ dsSet = SetIdle
    /\ dsPairs = {}
    /\ heapKind = "none"
    /\ bheap = HeapIdle
    /\ fheap = HeapIdle
    /\ handle \in [algorithm : 0..3]
    /\ worldSize \in 1..MaxSize
    /\ input \in DisconnectedGraphs
    /\ mainGraph = input
    /\ mainMst = newWeightedGraph(input.vertices, input.vertices - 1)
    /\ pc = [rank \in Ranks |-> "start"]
    /\ local = [rank \in Ranks |-> LocalIdle]
    /\ channel = [rank \in Ranks |-> <<>>]
    /\ hist = [rank \in Ranks |-> <<>>]

SpecDisconnected == InitDisconnected /\ [][NextMST]_vars

\* C12: on a graph that is not connected, such as the three vertices with
\* the one edge between 0 and 1, each of the four algorithms comes to the
\* end of its loops: no rank runs on behind the end of the edge list
C12_DisconnectedTerminates ==
    \A rank \in Ranks : pc[rank] \notin {"overrun", "diverged", "wild"}

----------------------------------------------------------------------------
(* The distributed sort against the sort of one rank *)

\* sort with size = 1: mergeSort of the whole edge list
SortSequential(edgeList, elements) == mergeSort(edgeList, 0, elements - 1)

\* C13: for every edge list, equal weights included, the distributed sort
\* with a cohort of 2..floor(E/2)+1 ranks installs on rank 0 the same
\* sequence of (from, to, weight) triples as the sort with one rank
C13_SortCohortEquivalence ==
    (Sorted /\ worldSize > 1 /\ worldSize <= CDiv(input.edges, 2) + 1)
        => mainGraph.edgeList = SortSequential(input.edgeList, input.edges)

\* sort, one MPI_Recv pair of the tree merge: realloc, receive behind the
\* own part, merge, elementsPart += elementsRecieved
TreeJoin(mine, theirs) ==
    [edgeList |->
         merge(ReceiveBehind(mine.edgeList, mine.elements,
                             theirs.edgeList, theirs.elements),
               0, mine.elements + theirs.elements - 1, mine.elements - 1),
     elements |-> mine.elements + theirs.elements]

\* sort, for (; step < size; step *= 2) on one rank that holds `part`, as
\* far as the rank changes its part; parts are the sorted parts of all
\* ranks, and what a rank receives from rank + step is what that rank holds
\* when it comes to its MPI_Send
RECURSIVE SortTree(_, _, _, _, _)
SortTree(parts, cohort, rank, part, step) ==
    IF step >= cohort THEN part
    ELSE IF CMod(rank, 2 * step) = 0 /\ rank + step < cohort
    THEN SortTree(parts, cohort, rank,
                  TreeJoin(part,
                           SortTree(parts, cohort, rank + step,
                                    parts[rank + step], 1)),
                  2 * step)
    ELSE IF CMod(rank, 2 * step) # 0 /\ CMod(rank, step) = 0
    THEN part
    ELSE SortTree(parts, cohort, rank, part, 2 * step)

\* the sorted parts of a cohort whose scatter reads nothing behind the
\* edge list
SortedParts(edgeList, elements, cohort) ==
    [rank \in 0..(cohort - 1) |->
        [edgeList |->
             mergeSort(
                 scatterEdgeList(edgeList, elements,
                                 ElementsPart(elements, cohort),
                                 rank, cohort, <<0, 0, 0>>).edgeListPart,
                 0,
                 ScatterCount(elements, ElementsPart(elements, cohort),
                              rank, cohort) - 1),
         elements |-> ScatterCount(elements, ElementsPart(elements, cohort),
                                   rank, cohort)]]

\* sort: the edge list rank 0 installs
DistributedSort(edgeList, elements, cohort) ==
    IF cohort = 1 THEN SortSequential(edgeList, elements)
    ELSE SortTree(SortedParts(edgeList, elements, cohort), cohort, 0,
                  SortedParts(edgeList, elements, cohort)[0], 1).edgeList

\* C14: for every edge list, equal weights included, the distributed sort
\* run a second time, by the same cohort on the edge list it installed,
\* installs that edge list again
C14_SortIdempotent ==
    (Sorted /\ ~ScatterReadsBehind(input.edges, worldSize))
        => DistributedSort(mainGraph.edgeList, input.edges, worldSize)
               = mainGraph.edgeList

----------------------------------------------------------------------------
(* The parts of the scatter *)

\* every rank of a cohort of several ranks is back from scatterEdgeList
\* and has not yet touched its part
Parted ==
    /\ worldSize > 1
    /\ \/ \A rank \in Ranks : pc[rank] = "mergeSort"
       \/ \A rank \in Ranks : pc[rank] = "find" /\ local[rank].i = 1

\* the sum of elementsPart over the ranks from `rank` on
RECURSIVE PartsFrom(_)
PartsFrom(rank) ==
    IF rank \in Ranks
    THEN local[rank].elementsPart + PartsFrom(rank + 1) ELSE 0

\* C15: for every E and every size > 1 that pass the topology check, after
\* scatterEdgeList the counts of the ranks sum to E, no rank has an empty
\* part, and every slot a rank counts as its own lies at an index below E
\* of the edge list of rank 0
C15_ScatterCounts ==
    Parted =>
        /\ PartsFrom(0) = input.edges
        /\ \A rank \in Ranks :
               /\ local[rank].elementsPart > 0
               /\ \A j \in 0..(local[rank].elementsPart - 1) :
                      rank * ElementsPart(input.edges, worldSize) + j
                          < input.edges

----------------------------------------------------------------------------
(* The tree merge of sort and the tree reduce of Boruvka *)

\* how often `call` stands in the calls of a rank
CallCount(rank, call) ==
    Cardinality({k \in DOMAIN hist[rank] : hist[rank][k] = call})

\* how many messages of `from` for `to` are in flight
InFlight(from, to) ==
    Cardinality({k \in DOMAIN channel[from] : channel[from][k].to = to})

\* the ranks whose parts have come together in the part of `rank`
RECURSIVE Incorporated(_)
Incorporated(rank) ==
    {rank} \cup UNION {Incorporated(hist[rank][k][2]) :
                          k \in {j \in DOMAIN hist[rank] :
                                    hist[rank][j][1] = "recv"}}

\* every MPI_Send of a rank is to a rank of the cohort, and that rank has
\* received it in one MPI_Recv from the sender or will find it in flight
SendsMatched ==
    \A from \in Ranks : \A to \in 0..(MaxSize - 1) :
        IF to \in Ranks
        THEN CallCount(from, <<"send", to>>)
                 = CallCount(to, <<"recv", from>>) + InFlight(from, to)
        ELSE CallCount(from, <<"send", to>>) = 0 /\ InFlight(from, to) = 0

\* a rank makes at most one MPI_Send, and no call after it
SendIsLast ==
    \A rank \in Ranks : \A k \in DOMAIN hist[rank] :
        hist[rank][k][1] = "send" => k = Len(hist[rank])

\* a rank in MPI_Recv has its message in flight or a partner that is on its
\* way to its MPI_Send; a rank in MPI_Bcast has the others on their way to
\* it (a rank may still be adding the edges of the phase before)
NoneBlocked ==
    \A rank \in Ranks :
        /\ pc[rank] \in {"merge", "combine"} =>
               /\ rank + local[rank].step \in Ranks
               /\ \/ Arrived(rank, rank + local[rank].step)
                  \/ /\ hist[rank + local[rank].step] = <<>>
                     /\ pc[rank + local[rank].step]
                            \in {"mergeSort", "merge", "add", "find",
                                 "combine"}
        /\ pc[rank] = "publish" =>
               \A other \in Ranks :
                   pc[other] \in {"add", "find", "combine", "publish"}

\* rank 0 has come to the end of a tree merge or of a tree reduce
Reduced ==
    /\ worldSize > 1
    /\ \/ handle.algorithm = 0 /\ pc[0] = "loop"
       \/ handle.algorithm = 3 /\ pc[0] = "publish"

\* C16: for every cohort of two or more ranks, powers of two or not, in the
\* tree merge of sort and in the tree reduce of every Boruvka phase each
\* send is matched by exactly one receive of the rank that is `step` below
\* the sender, no rank waits for a message or a broadcast that cannot come,
\* a rank makes no call after its send, and rank 0 leaves the loop with the
\* parts of all ranks in its own
C16_TreeReduction ==
    /\ SendsMatched
    /\ SendIsLast
    /\ NoneBlocked
    /\ Reduced => Incorporated(0) = Ranks /\ \A rank \in Ranks :
                                                channel[rank] = <<>>

----------------------------------------------------------------------------
(* SpecBoruvka: mstBoruvka by several ranks on paths of MaxPathVertices    *)
(* vertices, which take the phase loop through forests of depth two        *)

\* the paths through the vertices 0..MaxPathVertices-1 in any order, the
\* edges in ascending order of their pairs, with the weights 1..MaxWeight
PathGraphs ==
    UNION {{FileOf(MaxPathVertices, PairList(S), weights, FALSE, FALSE) :
                weights \in [0..(MaxPathVertices - 2) -> 1..MaxWeight]} :
           S \in {T \in SUBSET VertexPairs(MaxPathVertices) :
                     /\ Cardinality(T) = MaxPathVertices - 1
                     /\ ConnectedPairs(MaxPathVertices, T)
                     /\ \A v \in 0..(MaxPathVertices - 1) :
                            Cardinality({q \in T : v \in {q[1], q[2]}})
                                <= 2}}

InitBoruvka ==
    /\ dsSet = SetIdle
    /\ dsPairs = {}
    /\ heapKind = "none"
    /\ bheap = HeapIdle
    /\ fheap = HeapIdle
    /\ handle = [algorithm |-> 3]
    /\ worldSize \in 2..MaxSize
    /\ input \in PathGraphs
    /\ mainGraph = input
    /\ mainMst = newWeightedGraph(input.vertices, input.vertices - 1)
    /\ pc = [rank \in Ranks |-> "start"]
    /\ local = [rank \in Ranks |-> LocalIdle]
    /\ channel = [rank \in Ranks |-> <<>>]
    /\ hist = [rank \in Ranks |-> <<>>]

NextBoruvka ==
    \/ \E filler \in Fillers : BoruvkaEnter(filler)
    \/ \E rank \in Ranks : BoruvkaFind(rank)
    \/ \E rank \in Ranks : BoruvkaCombine(rank)
    \/ BoruvkaPublish
    \/ \E rank \in Ranks : BoruvkaAdd(rank)

SpecBoruvka == InitBoruvka /\ [][NextBoruvka]_vars

\* what a rank holds at the end of the phase whose edges it is about to add
PhaseEnd(rank) ==
    AddNewEdges(rank, local[rank].closestEdge, mainMst, local[rank].set,
                local[rank].edgesMST, 0)

\* two ranks at the end of a phase: the same count of MST edges and the
\* same canonical element for every vertex
SameForest(a, b) ==
    /\ a.edgesMST = b.edgesMST
    /\ \A v \in DOMAIN a.set.canonicalElements :
           findSet(a.set, v).ret = findSet(b.set, v).ret

\* every rank of a Boruvka cohort has the broadcast of the phase and is
\* about to add its edges
Adding ==
    /\ worldSize > 1
    /\ handle.algorithm = 3
    /\ \A rank \in Ranks : pc[rank] = "add"

\* C17: in Boruvka with several ranks, at the end of every phase all ranks
\* hold the same canonical element for every vertex and the same edgesMST,
\* whatever paths their own scans have compressed; so all ranks make the
\* same number of turns in the phase loop, and a rank that has returned
\* leaves no rank behind in a send, a receive or a broadcast of a further
\* phase
C17_PhaseAgreement ==
    (worldSize > 1 /\ handle.algorithm = 3) =>
        /\ Adding =>
               \A rank \in Ranks :
                   /\ local[rank].i = local[0].i
                   /\ SameForest(PhaseEnd(0), PhaseEnd(rank))
        /\ \A rank, other \in Ranks :
               pc[rank] = "done" =>
                   /\ pc[other] \in {"add", "done"}
                   /\ pc[other] = "done" =>
                          /\ local[other].i = local[rank].i
                          /\ local[other].edgesMST = local[rank].edgesMST

\* the ranks are about to add the edges of the second phase, and the scans
\* have left them with forests that differ
C17_Witness ==
    /\ Adding
    /\ local[0].i = 2
    /\ \E rank \in Ranks :
           /\ local[rank].set.canonicalElements
                  # local[0].set.canonicalElements
           /\ PhaseEnd(rank).set.canonicalElements
                  # PhaseEnd(0).set.canonicalElements

\* every set of the forest `before` is joined with another one in `after`
EveryComponentMerged(before, after) ==
    \A v \in DOMAIN before.canonicalElements :
        \E u \in DOMAIN before.canonicalElements :
            /\ findSet(before, u).ret # findSet(before, v).ret
            /\ findSet(after, u).ret = findSet(after, v).ret

\* C18: for every connected graph, equal weights included, Boruvka's loop
\* over the phases ends with edgesMST = V - 1, not by its bound i < V alone:
\* in every phase that starts with more than one component each component
\* is joined with at least one other
C18_PhaseProgress ==
    (worldSize > 0 /\ handle.algorithm = 3) =>
        \A rank \in Ranks :
            /\ pc[rank] = "done" =>
                   local[rank].edgesMST = input.vertices - 1
            /\ (pc[rank] = "add"
                    /\ local[rank].edgesMST < input.vertices - 1) =>
                   EveryComponentMerged(local[rank].set, PhaseEnd(rank).set)

\* three ranks have returned from Boruvka's second phase on four vertices
\* and edges of one weight: the loop has come to its bound i < V and to
\* V - 1 edges at once
C18_Witness ==
    /\ Returned /\ handle.algorithm = 3 /\ worldSize = 3
    /\ input.vertices = 4 /\ input.edges = 3
    /\ \A j \in DOMAIN input.edgeList : input.edgeList[j][3] = 1
    /\ local[0].i = 4
    /\ local[0].edgesMST = 3

\* rank 0 is behind Kruskal's loop over the sorted edge list
KruskalLooped ==
    /\ handle.algorithm = 0
    /\ pc[0] \in {"done", "overrun", "wild"}

\* C19: for every connected graph and size 1, Kruskal's loop, which goes on
\* while edgesMST < V - 1 || currentEdge < E, reads no edge at an index >= E
\* of the sorted list and writes no MST slot at an index >= V - 1: it ends
\* by its condition with currentEdge = E, having read the indices below
\* currentEdge, and with edgesMST <= V - 1, having written the slots below
\* edgesMST
C19_KruskalInBounds ==
    (worldSize = 1 /\ KruskalLooped) =>
        /\ pc[0] = "done"
        /\ local[0].i = input.edges
        /\ local[0].edgesMST <= input.vertices - 1
        /\ local[0].edgesMST - 1 \in DOMAIN mainMst.edgeList \cup {-1}

\* Kruskal with size 1 has returned on four vertices and five edges: the
\* loop went on by currentEdge < E after the MST had its three edges
C19_Witness ==
    /\ worldSize = 1 /\ KruskalLooped
    /\ input.vertices = 4 /\ input.edges = 5
    /\ local[0].i = 5
    /\ local[0].edgesMST = 3

\* mstPrimFibonacci, the heap after the loop of its pushes
RECURSIVE FilledHeap(_, _)
FilledHeap(vertices, i) ==
    IF i = 0 THEN newFibonacciMinHeap(vertices)
    ELSE pushFibonacciMinHeap(FilledHeap(vertices, i - 1), i - 1,
                              INT_MAX, INT_MAX)

\* the history of these pushes
RECURSIVE FilledHist(_)
FilledHist(i) ==
    IF i = 0 THEN HistInit
    ELSE HistPush(FilledHist(i - 1), i - 1, INT_MAX, INT_MAX)

\* mstPrimFibonacci up to its first pop: the pushes, then
\* decreaseFibonacciMinHeap(heap, 0, 0, 0) and popFibonacciMinHeap
StartedHeap(vertices) ==
    popFibonacciMinHeap(
        decreaseFibonacciMinHeap(FilledHeap(vertices, vertices), 0, 0, 0))

StartedHist(vertices, filled, r) ==
    HistPop(HistDecrease(FilledHist(vertices), 0, 0, 0,
                         FibonacciEntries(filled), FibonacciEntries(filled)),
            r)

\* the heap is the one that mstPrimFibonacci filled
Filled == Cardinality(DOMAIN fheap.positions) = MaxFilledVertices

\* SpecFibonacci: one Fibonacci heap under pushes, decreases and pops in any
\* interleaving.  The vertices are pushed once each in the order 0, 1, 2,
\* ... (as mstPrimFibonacci pushes them).  The heap is either new, for
\* MaxFibonacciVertices vertices, or the one of MaxFilledVertices vertices
\* that mstPrimFibonacci has after its first pop; the latter is decreased
\* to the weight 0 only and popped until MaxFilledPops pops were made.
InitFibonacci ==
    /\ dsSet = SetIdle
    /\ dsPairs = {}
    /\ heapKind = "fibonacci"
    /\ bheap = HeapIdle
    /\ \/ /\ fheap = newFibonacciMinHeap(MaxFibonacciVertices)
          /\ hist = HistInit
       \/ /\ fheap = StartedHeap(MaxFilledVertices).heap
          /\ hist = StartedHist(MaxFilledVertices,
                                FilledHeap(MaxFilledVertices,
                                           MaxFilledVertices),
                                StartedHeap(MaxFilledVertices))
    /\ MainIdle

NextFibonacci ==
    \/ \E w \in HeapWeights :
           /\ Cardinality(hist.pushed) < Cardinality(DOMAIN fheap.positions)
           /\ HeapPushFibonacci(Cardinality(hist.pushed), 0, w)
    \/ \E v \in DOMAIN fheap.positions,
          w \in IF Filled THEN {0} ELSE HeapWeights :
           HeapDecreaseFibonacci(v, 0, w)
    \/ /\ Filled => Len(hist.popped) < MaxFilledPops
       /\ HeapPopFibonacci

SpecFibonacci == InitFibonacci /\ [][NextFibonacci]_vars

\* no element weighs less than its parent
FibonacciHeapOrder(heap) ==
    \A a \in DOMAIN heap.nodes :
        heap.nodes[a].parent # NULL =>
            /\ heap.nodes[a].parent \in DOMAIN heap.nodes
            /\ heap.nodes[a].weight >= heap.nodes[heap.nodes[a].parent].weight

\* minimum is a root that no element weighs less than, or NULL
FibonacciMinimum(heap) ==
    IF heap.minimum = NULL THEN DOMAIN heap.nodes = {}
    ELSE /\ heap.minimum \in DOMAIN heap.nodes
         /\ heap.nodes[heap.minimum].parent = NULL
         /\ \A a \in DOMAIN heap.nodes :
                heap.nodes[heap.minimum].weight <= heap.nodes[a].weight

\* positions holds the one element of every vertex in the heap and NULL
\* for every vertex that was popped
FibonacciPositions(heap, h) ==
    /\ {heap.nodes[a].vertex : a \in DOMAIN heap.nodes} = InHeap(h)
    /\ \A v \in InHeap(h) :
           /\ heap.positions[v] \in DOMAIN heap.nodes
           /\ \A a \in DOMAIN heap.nodes :
                  heap.nodes[a].vertex = v <=> a = heap.positions[v]
    /\ \A v \in PoppedVertices(h) : heap.positions[v] = NULL

\* C20: after every push, decrease and pop of a Fibonacci heap, in any
\* interleaving, every element that is no root weighs at least what its
\* parent weighs, minimum is a root with the least weight of all elements
\* of the heap, or NULL exactly when the heap is empty, and positions[v]
\* is the one element of v while v is in the heap and NULL once v was
\* popped
C20_FibonacciInvariants ==
    heapKind = "fibonacci" =>
        /\ FibonacciHeapOrder(fheap)
        /\ FibonacciMinimum(fheap)
        /\ (fheap.minimum = NULL) <=> (InHeap(hist) = {})
        /\ FibonacciPositions(fheap, hist)

\* the filled heap after a cascading cut: since the one pop, which left one
\* tree, decreases have made a second root that still has the weight
\* INT_MAX of its push, the parent of two elements that were cut
C20_Witness ==
    /\ Filled /\ Len(hist.popped) = 1
    /\ \E a, b \in DOMAIN fheap.nodes :
           /\ a # b
           /\ fheap.nodes[a].parent = NULL /\ fheap.nodes[a].weight = INT_MAX
           /\ fheap.nodes[b].parent = NULL /\ fheap.nodes[b].weight = INT_MAX

\* C21: after every push, decrease and pop of a binary heap, the pop of the
\* last entry included, positions[v] is UNSET_ELEMENT for every vertex v
\* that was popped, and for every vertex v in the heap positions[v] is the
\* index, below size, of the entry with the vertex v
C21_BinaryPositions ==
    heapKind = "binary" =>
        /\ \A v \in PoppedVertices(hist) :
               bheap.positions[v] = UNSET_ELEMENT
        /\ \A v \in InHeap(hist) :
               /\ bheap.positions[v] \in 0..(bheap.size - 1)
               /\ bheap.elements[bheap.positions[v]].vertex = v

\* the elements reached from those of S by right pointers, and by child
\* pointers as well when down is TRUE
RECURSIVE FibonacciClosure(_, _, _)
FibonacciClosure(heap, S, down) ==
    IF \A a \in S :
           /\ heap.nodes[a].right \in S
           /\ (down /\ heap.nodes[a].child # NULL) => heap.nodes[a].child \in S
    THEN S
    ELSE FibonacciClosure(
             heap,
             (S \cup {heap.nodes[a].right : a \in S}
                \cup {heap.nodes[a].child : a \in IF down THEN S ELSE {}})
                 \cap DOMAIN heap.nodes,
             down)

\* the sibling list of first, NULL for the empty list
SiblingList(heap, first) ==
    IF first = NULL THEN {} ELSE FibonacciClosure(heap, {first}, FALSE)

\* x->right->left == x and x->left->right == x for every element
FibonacciLinked(heap) ==
    \A a \in DOMAIN heap.nodes :
        /\ heap.nodes[a].right \in DOMAIN heap.nodes
        /\ heap.nodes[a].left \in DOMAIN heap.nodes
        /\ heap.nodes[heap.nodes[a].right].left = a
        /\ heap.nodes[heap.nodes[a].left].right = a

\* the root list is the ring of minimum and the children of every element
\* are the ring of its child pointer
FibonacciLists(heap) ==
    /\ {a \in DOMAIN heap.nodes : heap.nodes[a].parent = NULL}
           = SiblingList(heap, heap.minimum)
    /\ \A p \in DOMAIN heap.nodes :
           /\ heap.nodes[p].child \in DOMAIN heap.nodes \cup {NULL}
           /\ {a \in DOMAIN heap.nodes : heap.nodes[a].parent = p}
                  = SiblingList(heap, heap.nodes[p].child)

\* childrens counts the elements whose parent the element is, and child is
\* NULL exactly when there are none
FibonacciDegrees(heap) ==
    \A p \in DOMAIN heap.nodes :
        /\ heap.nodes[p].childrens
               = Cardinality({a \in DOMAIN heap.nodes :
                                  heap.nodes[a].parent = p})
        /\ (heap.nodes[p].child = NULL) <=> (heap.nodes[p].childrens = 0)

\* size counts the elements reached from the root list
FibonacciSize(heap) ==
    heap.size = Cardinality(IF heap.minimum = NULL THEN {}
                            ELSE FibonacciClosure(heap, {heap.minimum}, TRUE))

\* C22: after every push, decrease and pop of a Fibonacci heap, the root
\* list and every child list are circular doubly-linked lists (x.right.left
\* = x and x.left.right = x, a single element linked to itself), childrens
\* of every element is the number of elements whose parent it is, child is
\* NULL exactly when childrens is 0, and size is the number of elements
\* reached from the root list
C22_FibonacciStructure ==
    heapKind = "fibonacci" =>
        /\ FibonacciLinked(fheap)
        /\ FibonacciLists(fheap)
        /\ FibonacciDegrees(fheap)
        /\ FibonacciSize(fheap)

\* a cut has taken one of two children out of the child list of an element
\* that is no root: the element is marked and has one child left
C22_Witness ==
    /\ heapKind = "fibonacci"
    /\ \E p \in DOMAIN fheap.nodes :
           /\ fheap.nodes[p].parent # NULL
           /\ fheap.nodes[p].marked
           /\ fheap.nodes[p].childrens = 1

\* a step of decreaseFibonacciMinHeap: no vertex is pushed or popped
DecreaseStep ==
    /\ heapKind = "fibonacci"
    /\ hist'.pushed = hist.pushed
    /\ hist'.popped = hist.popped

\* the elements that the step has moved from a child list to the root list
MovedToRoots ==
    {a \in DOMAIN fheap.nodes \cap DOMAIN fheap'.nodes :
        fheap.nodes[a].parent # NULL /\ fheap'.nodes[a].parent = NULL}

\* C23: every element that cutFibonacciMinHeap moves to the root list is
\* unmarked afterwards, the element cut by the decrease as well as the
\* ancestors cut by the cascade: when a decrease returns, no element that
\* it moved to the root list has marked set
C23_CutUnmarks ==
    [][DecreaseStep => \A a \in MovedToRoots : ~fheap'.nodes[a].marked]_vars

\* a step of popFibonacciMinHeap that leaves elements behind, so that it
\* has called consolidateFibonacciMinHeap
ConsolidateStep ==
    /\ heapKind = "fibonacci"
    /\ hist'.popped # hist.popped
    /\ fheap'.size > 0

FibonacciRoots(heap) ==
    {a \in DOMAIN heap.nodes : heap.nodes[a].parent = NULL}

\* the indices that the consolidate which returned heap has used on its
\* degree table: the two loops over the table use every index below
\* degreeSize, and the sweep uses the degrees up to those the roots have in
\* the end (a slot is emptied only for a link that fills a higher one)
DegreeIndices(heap) ==
    (0..(DegreeSize(heap.size) - 1))
        \cup UNION {0..heap.nodes[a].childrens : a \in FibonacciRoots(heap)}

\* no two roots have the same number of children
DistinctDegrees(heap) ==
    \A a, b \in FibonacciRoots(heap) :
        heap.nodes[a].childrens = heap.nodes[b].childrens => a = b

\* C24, as amended: in every consolidate, every index used on the degree
\* table is smaller than the table size floor(2 * log2(size)) + 1 that is
\* computed from the heap size after the pop, and when consolidate returns
\* no two roots have the same degree
C24_DegreeTable ==
    [][ConsolidateStep =>
           /\ \A i \in DegreeIndices(fheap') : i < DegreeSize(fheap'.size)
           /\ DistinctDegrees(fheap')]_vars

\* C24, as stated: the same with the table size 2 * floor(log2(size)) + 1
C24_DegreeTableStated ==
    [][ConsolidateStep =>
           /\ \A i \in DegreeIndices(fheap') :
                  i < 2 * FloorLog2(fheap'.size) + 1
           /\ DistinctDegrees(fheap')]_vars

\* a pop has left three elements, which consolidate has made two roots,
\* one with a child and one without
C24_Witness ==
    /\ heapKind = "fibonacci"
    /\ hist.popped # <<>>
    /\ fheap.size = 3
    /\ {fheap.nodes[a].childrens : a \in FibonacciRoots(fheap)} = {0, 1}
    /\ DistinctDegrees(fheap)

\* the sibling list of first as the sequence first, first->right, ... up to
\* the element left of until
RECURSIVE RightOrder(_, _, _)
RightOrder(heap, first, until) ==
    <<first>> \o (IF heap.nodes[first].right = until THEN <<>>
                  ELSE RightOrder(heap, heap.nodes[first].right, until))

\* the roots in the order in which the do-while of consolidate visits them
VisitOrder(heap) == RightOrder(heap, heap.minimum, heap.minimum)

\* the heap that the pop of this step gave to consolidate
Unconsolidated ==
    PopUnlink(fheap, PopChildren(fheap.nodes, fheap.minimum, 0),
              fheap.minimum)

\* in a sweep over roots of one weight, where the heavier-root swap is never
\* made, every root that was made a child is the child of a root that was
\* visited before it
EarlierRootsStay(order, before, after) ==
    \A i, j \in DOMAIN order :
        (/\ \A k \in DOMAIN order :
                before.nodes[order[k]].weight = before.nodes[order[1]].weight
         /\ after.nodes[order[j]].parent = order[i])
            => i < j

\* C25: when consolidate links two roots of equal degree and equal weight,
\* the root visited earlier in the traversal of the root list, which is the
\* one in the degree table, stays a root and the root visited later becomes
\* its child
C25_EarlierRootStays ==
    [][ConsolidateStep =>
           EarlierRootsStay(VisitOrder(Unconsolidated), Unconsolidated,
                            fheap')]_vars

\* the number of parent links from x to a root when that is at most fuel,
\* and more than the number of elements when the links run into a cycle
RECURSIVE LinksToRoot(_, _, _)
LinksToRoot(set, x, fuel) ==
    IF set.canonicalElements[x] = UNSET_ELEMENT THEN 0
    ELSE IF fuel = 0 THEN set.elements + 1
    ELSE 1 + LinksToRoot(set, set.canonicalElements[x], fuel - 1)

\* no cycle of parent links, and no element further from its root than the
\* rank of the root
RankBoundsHeight(set) ==
    \A x \in DOMAIN set.canonicalElements :
        /\ LinksToRoot(set, x, set.elements) < set.elements
        /\ LinksToRoot(set, x, set.elements)
               <= set.rank[findSet(set, x).ret]

\* unionSet(a, b) on two roots root1 of a and root2 of b of one rank: root2
\* is the parent of root1 and its rank is one more
TieRaisesSecond(set, after, root1, root2) ==
    (root1 # root2 /\ set.rank[root1] = set.rank[root2]) =>
        /\ after.canonicalElements[root1] = root2
        /\ after.canonicalElements[root2] = UNSET_ELEMENT
        /\ after.rank[root2] = set.rank[root2] + 1
        /\ after.rank[root1] = set.rank[root1]

\* C26: after any sequence of union and find calls on a fresh forest, the
\* parent links have no cycle and no tree is higher than the rank of its
\* root, and a union(a, b) of two trees of equal rank makes the root of b
\* the parent of the root of a and raises the rank of the root of b by 1
C26_RankAndHeight ==
    heapKind = "none" =>
        /\ RankBoundsHeight(dsSet)
        /\ \A a, b \in DOMAIN dsSet.canonicalElements :
               TieRaisesSecond(dsSet, unionSet(dsSet, a, b),
                               findSet(dsSet, a).ret, findSet(dsSet, b).ret)

\* two unions of trees of equal rank, one after the other: a root of rank 2
\* over a tree of height 2
C26_Witness ==
    /\ heapKind = "none"
    /\ \E x, r \in DOMAIN dsSet.canonicalElements :
           /\ dsSet.rank[r] = 2
           /\ dsSet.canonicalElements[r] = UNSET_ELEMENT
           /\ LinksToRoot(dsSet, x, dsSet.elements) = 2
           /\ findSet(dsSet, x).ret = r

\* the root of the tree of x, by the parent links alone
RECURSIVE RootOf(_, _)
RootOf(set, x) ==
    IF set.canonicalElements[x] = UNSET_ELEMENT THEN x
    ELSE RootOf(set, set.canonicalElements[x])

\* the elements on the path from x to the root, the root excluded
RECURSIVE PathToRoot(_, _)
PathToRoot(set, x) ==
    IF set.canonicalElements[x] = UNSET_ELEMENT THEN {}
    ELSE {x} \cup PathToRoot(set, set.canonicalElements[x])

\* after has the ranks of set and the same root for every element
SameRanksAndRoots(set, after) ==
    /\ after.rank = set.rank
    /\ \A y \in DOMAIN set.canonicalElements :
           RootOf(after, y) = RootOf(set, y)

\* findSet(set, x) with the result f
FindCompressesPath(set, x, f) ==
    /\ f.ret = RootOf(set, x)
    /\ \A y \in DOMAIN set.canonicalElements :
           f.set.canonicalElements[y] =
               IF y \in PathToRoot(set, x) THEN f.ret
               ELSE set.canonicalElements[y]
    /\ SameRanksAndRoots(set, f.set)

\* C27: find(x) returns the root of the tree of x, and afterwards every
\* element on the path from x to the root, the root excluded, has the root
\* as its parent; find changes no rank, no parent outside that path and
\* the canonical root of no element; and union(a, b) of two elements of one
\* component changes no rank and the canonical root of no element
C27_FindAndUnionFrame ==
    heapKind = "none" =>
        /\ \A x \in DOMAIN dsSet.canonicalElements :
               FindCompressesPath(dsSet, x, findSet(dsSet, x))
        /\ \A a, b \in DOMAIN dsSet.canonicalElements :
               RootOf(dsSet, a) = RootOf(dsSet, b) =>
                   SameRanksAndRoots(dsSet, unionSet(dsSet, a, b))

\* a find has compressed the path of the one tree of rank 2: its root has
\* every other element as a child
C27_Witness ==
    /\ heapKind = "none"
    /\ \E r \in DOMAIN dsSet.canonicalElements :
           /\ dsSet.rank[r] = 2
           /\ \A x \in DOMAIN dsSet.canonicalElements \ {r} :
                  dsSet.canonicalElements[x] = r

\* the weights of list do not decrease from index lo to index hi
WeightOrdered(list, lo, hi) ==
    \A k \in lo..(hi - 1) : list[k][3] <= list[k + 1][3]

\* the index in lo..hi at which list holds edge (the edges of a file are
\* pairwise different)
IndexOf(list, edge, lo, hi) == CHOOSE k \in lo..hi : list[k] = edge

\* merge(before, lo, hi, pivot) = after
MergeResult(before, after, lo, hi, pivot) ==
    /\ DOMAIN after = DOMAIN before
    /\ WeightOrdered(after, lo, hi)
    /\ \A k \in lo..hi :
           Cardinality({m \in lo..hi : after[m] = before[k]})
               = Cardinality({m \in lo..hi : before[m] = before[k]})
    /\ \A k \in DOMAIN before \ (lo..hi) : after[k] = before[k]
    /\ \A i \in lo..pivot, j \in (pivot + 1)..hi :
           before[i][3] = before[j][3] =>
               IndexOf(after, before[i], lo, hi)
                   < IndexOf(after, before[j], lo, hi)

\* C28: merge(edges, lo, hi, pivot) with lo <= pivot < hi on two runs
\* lo..pivot and pivot+1..hi in non-decreasing weight order leaves lo..hi in
\* non-decreasing weight order and a permutation of what it was, leaves
\* every edge outside lo..hi as it was, and writes an edge of the left run
\* before every edge of the right run that has the same weight
C28_MergeRuns ==
    worldSize > 0 =>
        \A lo, pivot, hi \in DOMAIN input.edgeList :
            (/\ lo <= pivot /\ pivot < hi
             /\ WeightOrdered(input.edgeList, lo, pivot)
             /\ WeightOrdered(input.edgeList, pivot + 1, hi))
                => MergeResult(input.edgeList,
                               merge(input.edgeList, lo, hi, pivot),
                               lo, hi, pivot)

\* mergeSort of four edges with the weights 1, 2, 1, 2 has returned: its
\* last merge took two ordered runs with equal weights on both sides
C28_Witness ==
    /\ worldSize = 1 /\ Sorted
    /\ input.edges = 4
    /\ [k \in DOMAIN input.edgeList |-> input.edgeList[k][3]]
           = [k \in 0..3 |-> IF k \in {0, 2} THEN 1 ELSE 2]
    /\ mainGraph.edgeList = merge(input.edgeList, 0, 3, 1)
    /\ mainGraph.edgeList[1] = input.edgeList[2]

\* the closestEdge that the scan of the phase gave rank: findSet has since
\* compressed paths only, so the scan of the part over the forest that the
\* rank holds finds the same edge for every canonical element
ScannedClosestEdge(rank) ==
    FindClosestEdge(local[rank].edgeListPart, local[rank].set,
                    ResetClosestEdge(local[rank].closestEdge), 0).closestEdge

\* the least rank whose scan has the least weight in slot j
LightestRank(scanned, j) ==
    CHOOSE r \in DOMAIN scanned :
        /\ \A o \in DOMAIN scanned : scanned[r][j][3] <= scanned[o][j][3]
        /\ \A o \in DOMAIN scanned :
               scanned[o][j][3] = scanned[r][j][3] => r <= o

\* closestEdge is what the reduce makes of the scans: in every slot the
\* least of the scanned weights, INT_MAX when no scan has set the slot, and
\* otherwise the edge of the least rank that has scanned that weight, which
\* is the one that was held when the others of that weight came in
ReducedFrom(closestEdge, scanned) ==
    \A j \in DOMAIN closestEdge :
        /\ closestEdge[j][3] = scanned[LightestRank(scanned, j)][j][3]
        /\ closestEdge[j][3] # INT_MAX =>
               closestEdge[j] = scanned[LightestRank(scanned, j)][j]

\* C29: after the tree reduce and the broadcast of a Boruvka phase, every
\* slot of closestEdge holds on every rank the least of the weights that
\* the ranks have found for the slot in their own parts (INT_MAX when none
\* has set it), with an edge that a rank held in that slot with that weight;
\* a slot that comes in with the weight of the slot held never replaces it
C29_ReducedClosestEdge ==
    Adding =>
        \A rank \in Ranks :
            ReducedFrom(local[rank].closestEdge,
                        [r \in Ranks |-> ScannedClosestEdge(r)])

\* three ranks have the broadcast of a phase in which two of them found
\* different edges of the same, least weight for one slot
C29_Witness ==
    /\ Adding /\ worldSize = 3
    /\ \E j \in DOMAIN local[0].closestEdge :
       \E r, o \in Ranks :
           /\ r < o
           /\ ScannedClosestEdge(r)[j][3] = local[0].closestEdge[j][3]
           /\ ScannedClosestEdge(o)[j][3] = local[0].closestEdge[j][3]
           /\ local[0].closestEdge[j][3] # INT_MAX
           /\ ScannedClosestEdge(r)[j] # ScannedClosestEdge(o)[j]
           /\ local[2].closestEdge[j] = ScannedClosestEdge(r)[j]

\* C30: every edge of the MST that any of the four algorithms has written
\* is, field for field and with from and to in the same order, one of the
\* (from, to, weight) triples of the edge list that was read
C30_EdgeIdentity ==
    Returned =>
        \A k \in DOMAIN Emitted :
            \E j \in DOMAIN input.edgeList : input.edgeList[j] = Emitted[k]

\* the vertices of the live entries of the binary heap, elements[0..size-1]
BinaryLive == {bheap.elements[i].vertex : i \in 0..(bheap.size - 1)}

\* the live entries are one entry for each vertex pushed and not yet popped
BinaryLiveIntact ==
    /\ bheap.size = Cardinality(InHeap(hist))
    /\ BinaryLive = InHeap(hist)

\* elements[(i - 1) / 2].weight <= elements[i].weight for 0 < i < size
BinaryHeapOrder ==
    \A i \in 1..(bheap.size - 1) :
        bheap.elements[CDiv(i - 1, 2)].weight <= bheap.elements[i].weight

\* C31: after any pushes, decreases and pops of the binary heap, no swap of
\* the sift-down, which reads the slot at index size, has brought the stale
\* entry of that slot (or of a slot behind it) into elements[0..size-1]: the
\* live entries are still exactly the vertices pushed and not yet popped,
\* and every live entry weighs at least as much as its parent
C31_StaleStaysOut ==
    heapKind = "binary" => BinaryLiveIntact /\ BinaryHeapOrder

\* a pop of a binary heap of three entries has sifted the moved entry down:
\* it was swapped with its left child after the slot at index size, which
\* still holds the moved entry's copy, had been read as its right child
C31_Witness ==
    /\ heapKind = "binary"
    /\ Len(hist.popped) = 1
    /\ bheap.size = 2
    /\ bheap.elements[2].vertex = bheap.elements[1].vertex
    /\ bheap.elements[0].vertex # bheap.elements[2].vertex
    /\ bheap.elements[0].weight < bheap.elements[1].weight

============================================================================
